---- MODULE Spec2Model ----
(***************************************************************************)
(* A model of the vault curator: the armor scorer (ArmorScorer), the DIM   *)
(* backup view (DIMParser) and the cleanup planner (CleanupPlanner).       *)
(*                                                                         *)
(* Numbers.  The total score is computed by the code in floating point;    *)
(* its only non-integer term is total/60*20 = total/3, so the model keeps  *)
(* the running score in thirds of a point and rounds as Math.round does    *)
(* (to the nearest integer, halves upwards).  A profile score is a         *)
(* multiple of 0.1; the model keeps it in tenths, with the weights times   *)
(* ten.  The code's floating-point sum of products decides which way a     *)
(* score exactly halfway between two tenths is rounded; the model leaves   *)
(* that to fpDown, fixed per item for a whole behaviour.                   *)
(*                                                                         *)
(* Optional values (stats?, score?, a null result) are sequences of        *)
(* length 0 or 1.                                                          *)
(***************************************************************************)
EXTENDS Integers, Sequences, FiniteSets, TLC

VARIABLES
    inventory,        \* the item list handed to the operations
    backup,           \* DIMParser.backup: None or Some(DIMBackup)
    protectionRules,  \* CleanupPlanner.protectionRules
    config,           \* CleanupPlanner.config (onlyVault)
    currentPlan,      \* the plan returned by the last generatePlan
    profiles,         \* ArmorScorer.profiles, in insertion order
    output,           \* the value returned by the last scorer operation
    options,          \* DuplicateFinder.options
    duplicateGroups,  \* the groups returned by the last findDuplicates
    now,              \* the clock that new Date() reads
    fpDown,           \* the items whose profile score, when it falls exactly
                      \* between two tenths, the floating-point evaluation
                      \* rounds down (the exact value would round up)
    document,         \* the backup document the caller holds
    bungieClient,     \* VaultCuratorServer.bungieClient is not null
    cleanupPlanner,   \* VaultCuratorServer.cleanupPlanner is not null
    requests          \* the transfer requests issued by the last tool call

vars ==
    <<inventory, backup, protectionRules, config, currentPlan, profiles, output,
      options, duplicateGroups, now, fpDown,
      document, bungieClient, cleanupPlanner, requests>>

\* The state of the server and of its caller.
serverVars == <<document, bungieClient, cleanupPlanner, requests>>

None == <<>>
Some(x) == <<x>>
IsSome(o) == Len(o) > 0
Get(o) == o[1]

Max(a, b) == IF a >= b THEN a ELSE b
Min(a, b) == IF a <= b THEN a ELSE b
Abs(a) == IF a >= 0 THEN a ELSE 0 - a

\* Math.round on a value given as num/den with den > 0: floor(x + 1/2).
MathFloor(num, den) == num \div den
MathRound(num, den) == (2 * num + den) \div (2 * den)

RECURSIVE SeqSum(_)
SeqSum(s) == IF s = <<>> THEN 0 ELSE Head(s) + SeqSum(Tail(s))

RECURSIVE SeqMax(_)
SeqMax(s) == IF Len(s) = 1 THEN s[1] ELSE Max(Head(s), SeqMax(Tail(s)))

RECURSIVE SeqMin(_)
SeqMin(s) == IF Len(s) = 1 THEN s[1] ELSE Min(Head(s), SeqMin(Tail(s)))

\* The comparators handed to Array.prototype.sort: a goes before b when the
\* comparator returns a negative number.
ByValueDesc(a, b) == b.value - a.value < 0

\* The comparator without its last key: the power level is not compared.
WeaponBeforeNoPower(a, b) ==
    IF a.isMasterworked # b.isMasterworked THEN a.isMasterworked
    ELSE IF a.isLocked # b.isLocked THEN a.isLocked
    ELSE FALSE

\* The comparator of analyzeWeapon (and of recommendWeapons): a goes first.
WeaponBefore(a, b) ==
    IF a.isMasterworked # b.isMasterworked THEN a.isMasterworked
    ELSE IF a.isLocked # b.isLocked THEN a.isLocked
    ELSE b.powerLevel - a.powerLevel < 0

ActionOrder(a) == CASE a = "JUNK" -> 0 [] a = "REVIEW" -> 1 [] a = "KEEP" -> 2

RecBefore(a, b) == ActionOrder(a.action) - ActionOrder(b.action) < 0

\* (a, b) => (b.score?.totalScore ?? 0) - (a.score?.totalScore ?? 0)
ScoreOrZero(score) == IF IsSome(score) THEN Get(score).totalScore ELSE 0
ByScoreDesc(a, b) == ScoreOrZero(b.score) - ScoreOrZero(a.score) < 0

\* (a, b) => b.items.length - a.items.length
BySizeDesc(a, b) == Len(b.items) - Len(a.items) < 0

Before(comparator, a, b) ==
    CASE comparator = "value" -> ByValueDesc(a, b)
      [] comparator = "score" -> ByScoreDesc(a, b)
      [] comparator = "size" -> BySizeDesc(a, b)
      [] comparator = "weapon" -> WeaponBefore(a, b)
      [] comparator = "action" -> RecBefore(a, b)

\* Array.prototype.sort with a consistent comparator is a stable sort: x goes
\* before the first element it must precede.
\* x goes before the elements it compares equal to.
InsertSortedBeforeEqual(x, s, comparator) ==
    LET after == {j \in 1..Len(s) : ~Before(comparator, s[j], x)}
        p == IF after = {} THEN Len(s) + 1
             ELSE CHOOSE j \in after : \A k \in after : j <= k
    IN SubSeq(s, 1, p - 1) \o <<x>> \o SubSeq(s, p, Len(s))

InsertSorted(x, s, comparator) ==
    LET after == {j \in 1..Len(s) : Before(comparator, x, s[j])}
        p == IF after = {} THEN Len(s) + 1
             ELSE CHOOSE j \in after : \A k \in after : j <= k
    IN SubSeq(s, 1, p - 1) \o <<x>> \o SubSeq(s, p, Len(s))

StableSort(s, comparator) ==
    LET sorted[k \in 0..Len(s)] ==
            IF k = 0 THEN <<>> ELSE InsertSorted(s[k], sorted[k - 1], comparator)
    IN sorted[Len(s)]

(***************************************************************************)
(* Types                                                                   *)
(***************************************************************************)
Vault == 2
Inventory == 1
Legendary == 5
Exotic == 6

\* BungieClient.extractArmorStats: the total is the sum of the six stats.
ExtractArmorStats(m, r, c, d, i, s) ==
    [mobility |-> m, resilience |-> r, recovery |-> c, discipline |-> d,
     intellect |-> i, strength |-> s, total |-> m + r + c + d + i + s]

(***************************************************************************)
(* ArmorScorer                                                             *)
(***************************************************************************)
minTotalStats == 60
goodTotalStats == 65
excellentTotalStats == 68
spikeThreshold == 20
superSpikeThreshold == 26
weakStatThreshold == 6

\* Weights times ten.
Weights(m, r, c, d, i, s) ==
    [mobility |-> m, resilience |-> r, recovery |-> c, discipline |-> d,
     intellect |-> i, strength |-> s]

STAT_PROFILES ==
    << [id |-> "pvp_hunter",   weights |-> Weights(15, 12, 13, 8, 7, 5)],
       [id |-> "pvp_titan",    weights |-> Weights(5, 15, 13, 8, 7, 7)],
       [id |-> "pvp_warlock",  weights |-> Weights(5, 13, 15, 9, 7, 5)],
       [id |-> "pve_ability",  weights |-> Weights(3, 10, 8, 15, 5, 13)],
       [id |-> "pve_balanced", weights |-> Weights(5, 12, 10, 12, 6, 8)],
       [id |-> "gm_nightfall", weights |-> Weights(3, 15, 12, 13, 5, 5)] >>

\* Map.prototype.set: a known key keeps its place, a new key goes last.
RECURSIVE MapSet(_, _, _)
MapSet(m, id, w) ==
    IF m = <<>> THEN <<[id |-> id, weights |-> w]>>
    ELSE IF Head(m).id = id THEN <<[id |-> id, weights |-> w]>> \o Tail(m)
         ELSE <<Head(m)>> \o MapSet(Tail(m), id, w)

StatValues(stats) ==
    << [stat |-> "Mobility",   value |-> stats.mobility],
       [stat |-> "Resilience", value |-> stats.resilience],
       [stat |-> "Recovery",   value |-> stats.recovery],
       [stat |-> "Discipline", value |-> stats.discipline],
       [stat |-> "Intellect",  value |-> stats.intellect],
       [stat |-> "Strength",   value |-> stats.strength] >>

ValuesOf(sv) == [k \in 1..Len(sv) |-> sv[k].value]

IsWeakStatStrict(s) == s.value < weakStatThreshold
IsWeakStat(s) == s.value <= weakStatThreshold

analyzeStats(stats) ==
    LET statValues == StatValues(stats)
        sorted == StableSort(statValues, "value")
        minStat == SeqMin(ValuesOf(statValues))
        maxStat == SeqMax(ValuesOf(statValues))
    IN [totalStats |-> stats.total,
        hasSpike |-> \E k \in 1..6 : statValues[k].value >= spikeThreshold,
        hasSuperSpike |-> \E k \in 1..6 : statValues[k].value >= superSpikeThreshold,
        topStats |-> SubSeq(sorted, 1, 2),
        weakStats |-> SelectSeq(statValues, IsWeakStat),
        isWellDistributed |-> minStat >= 6 /\ maxStat - minStat <= 15]

\* In tenths: Math.round((weightedSum / totalWeight) * 10) / 10.
calculateProfileScore(stats, weights, down) ==
    LET weightedSum ==
            stats.mobility * weights.mobility +
            stats.resilience * weights.resilience +
            stats.recovery * weights.recovery +
            stats.discipline * weights.discipline +
            stats.intellect * weights.intellect +
            stats.strength * weights.strength
        totalWeight ==
            weights.mobility + weights.resilience + weights.recovery +
            weights.discipline + weights.intellect + weights.strength
        exactHalf == (20 * weightedSum) % (2 * totalWeight) = totalWeight
    IN IF exactHalf /\ down
       THEN MathRound(10 * weightedSum, totalWeight) - 1
       ELSE MathRound(10 * weightedSum, totalWeight)

HasExactHalf(stats, weights) ==
    calculateProfileScore(stats, weights, TRUE)
        # calculateProfileScore(stats, weights, FALSE)

\* The base score in thirds of a point.
BaseScore3(total) ==
    IF total >= excellentTotalStats THEN 3 * 40
    ELSE IF total >= goodTotalStats THEN 3 * 30
    ELSE IF total >= minTotalStats THEN 3 * 20
    ELSE Max(0, total)

SpikeBonus(analysis) ==
    IF analysis.hasSuperSpike THEN 30
    ELSE IF analysis.hasSpike THEN 20
    ELSE 0

DistributionBonus(analysis) == IF analysis.isWellDistributed THEN 15 ELSE 0

WeakPenalty(analysis) == Min(Len(analysis.weakStats) * 5, 15)

TopStatBonus(analysis) ==
    LET topStatSum == SeqSum(ValuesOf(analysis.topStats))
    IN IF topStatSum >= 45 THEN 15
       ELSE IF topStatSum >= 40 THEN 10
       ELSE IF topStatSum >= 35 THEN 5
       ELSE 0

\* The score before rounding and clamping, in thirds of a point.
RawScore3(stats, analysis) ==
    BaseScore3(stats.total)
    + 3 * SpikeBonus(analysis)
    + 3 * DistributionBonus(analysis)
    - 3 * WeakPenalty(analysis)
    + 3 * TopStatBonus(analysis)

ClampScoreAbove(rounded) == Min(100, rounded)
ClampScore(rounded) == Max(0, Min(100, rounded))

calculateTotalScore(stats, analysis) ==
    ClampScore(MathRound(RawScore3(stats, analysis), 3))

\* The loop of scoreArmor over the profiles: acc is (bestProfile,
\* bestProfileScore, profileScores) so far.
RECURSIVE ProfileLoop(_, _, _, _)
ProfileLoop(stats, ps, down, acc) ==
    IF ps = <<>> THEN acc
    ELSE LET score == calculateProfileScore(stats, Head(ps).weights, down)
             better == score > acc.bestProfileScore
         IN ProfileLoop(stats, Tail(ps), down,
                [bestProfile |-> IF better THEN Head(ps).id ELSE acc.bestProfile,
                 bestProfileScore |-> IF better THEN score ELSE acc.bestProfileScore,
                 profileScores |-> Append(acc.profileScores,
                                          [id |-> Head(ps).id, score |-> score])])

IsScorable(item) == item.itemType = "armor" /\ IsSome(item.stats)

\* The object scoreArmor returns, from the analysis and the result of the loop.
ArmorScore(stats, analysis, best) ==
    [totalScore |-> calculateTotalScore(stats, analysis),
     profileScores |-> best.profileScores,
     bestProfile |-> best.bestProfile,
     bestProfileScore |-> best.bestProfileScore,
     analysis |-> analysis]

\* None is the null result.
scoreArmor(item, profs) ==
    IF ~IsScorable(item) THEN None
    ELSE Some(ArmorScore(Get(item.stats),
                         analyzeStats(Get(item.stats)),
                         ProfileLoop(Get(item.stats), profs,
                                     item.itemInstanceId \in fpDown,
                                     [bestProfile |-> "", bestProfileScore |-> 0,
                                      profileScores |-> <<>>])))

\* The reason strings, by kind and by the values they print.
Reason(kind, profile, x, y) == [kind |-> kind, profile |-> profile, x |-> x, y |-> y]

\* Math.abs(scoreDiff) < 5
TooCloseNoAbs(scoreDiff) == scoreDiff < 5
TooClose(scoreDiff) == Abs(scoreDiff) < 5

\* profileBest > otherBest + 2, in tenths
ProfileWinsByTwo(profileBest, otherBest) == profileBest >= otherBest + 20
ProfileWins(profileBest, otherBest) == profileBest > otherBest + 20

\* compareArmor once the two items are scored.
Compare(item1, item2, score1, score2) ==
       IF ~IsSome(score1) /\ ~IsSome(score2) THEN
           [winner |-> None, reason |-> Reason("Neither item has stats", "", 0, 0),
            score1 |-> score1, score2 |-> score2]
       ELSE IF ~IsSome(score1) THEN
           [winner |-> Some(item2), reason |-> Reason("First item has no stats", "", 0, 0),
            score1 |-> score1, score2 |-> score2]
       ELSE IF ~IsSome(score2) THEN
           [winner |-> Some(item1), reason |-> Reason("Second item has no stats", "", 0, 0),
            score1 |-> score1, score2 |-> score2]
       ELSE
           LET s1 == Get(score1)
               s2 == Get(score2)
               scoreDiff == s1.totalScore - s2.totalScore
               profile1Best == s1.bestProfileScore
               profile2Best == s2.bestProfileScore
           IN IF TooClose(scoreDiff) THEN
                  IF ProfileWins(profile1Best, profile2Best) THEN
                      [winner |-> Some(item1),
                       reason |-> Reason("Better for builds", s1.bestProfile,
                                         profile1Best, profile2Best),
                       score1 |-> score1, score2 |-> score2]
                  ELSE IF ProfileWins(profile2Best, profile1Best) THEN
                      [winner |-> Some(item2),
                       reason |-> Reason("Better for builds", s2.bestProfile,
                                         profile2Best, profile1Best),
                       score1 |-> score1, score2 |-> score2]
                  ELSE
                      [winner |-> None,
                       reason |-> Reason("Too close to call", "",
                                         s1.totalScore, s2.totalScore),
                       score1 |-> score1, score2 |-> score2]
              ELSE
                  [winner |-> IF scoreDiff > 0 THEN Some(item1) ELSE Some(item2),
                   reason |-> Reason("Higher overall score", "",
                                     IF scoreDiff > 0 THEN s1.totalScore ELSE s2.totalScore,
                                     IF scoreDiff > 0 THEN s2.totalScore ELSE s1.totalScore),
                   score1 |-> score1, score2 |-> score2]

compareArmor(item1, item2, profs) ==
    Compare(item1, item2, scoreArmor(item1, profs), scoreArmor(item2, profs))

(***************************************************************************)
(* DIMParser: the lookups on the loaded backup                             *)
(***************************************************************************)
Includes(seq, x) == \E k \in 1..Len(seq) : seq[k] = x

loaded(b) == IsSome(b)

\* Only the first item of each loadout.
getLoadoutsForFirstItem(b, itemInstanceId) ==
    IF ~IsSome(b) THEN <<>>
    ELSE LET UsesItem(l) == l.itemIds[1] = itemInstanceId
         IN SelectSeq(Get(b).loadouts, UsesItem)

getLoadoutsForItem(b, itemInstanceId) ==
    IF ~IsSome(b) THEN <<>>
    ELSE LET UsesItem(l) == Includes(l.itemIds, itemInstanceId)
         IN SelectSeq(Get(b).loadouts, UsesItem)

\* None is undefined.
getTag(b, itemInstanceId) ==
    IF IsSome(b) /\ itemInstanceId \in DOMAIN Get(b).tags
    THEN Some(Get(b).tags[itemInstanceId])
    ELSE None

\* None is undefined.
getNote(b, itemInstanceId) ==
    IF IsSome(b) /\ itemInstanceId \in DOMAIN Get(b).notes
    THEN Some(Get(b).notes[itemInstanceId])
    ELSE None

(***************************************************************************)
(* DIMParser: parsing a backup document                                    *)
(*                                                                         *)
(* A document is the text handed to parseFromString, written as what       *)
(* JSON.parse makes of it: kind "invalid" is a text that is not JSON,      *)
(* "null" the text null, "number" a text that holds a number, "object" an  *)
(* object with the fields loadouts, tags and annotations ('loadouts-v3.0', *)
(* 'tags-v1.0', 'item-annotations').  A field is absent (or null), a       *)
(* number, or a list.  A loadout has a name and the lists equipped and     *)
(* unequipped, None when the list is missing; an entry has an id, None     *)
(* when it has none, and the instance ids are the positive numbers, 0      *)
(* being the empty string.  A record of a list of tags or annotations is   *)
(* None when it is null.                                                   *)
(***************************************************************************)
Throw(message) == [threw |-> TRUE, message |-> message, value |-> None]
Return(value) == [threw |-> FALSE, message |-> "", value |-> Some(value)]

Absent == [kind |-> "absent", list |-> <<>>]
NotAList == [kind |-> "number", list |-> <<>>]
List(list) == [kind |-> "list", list |-> list]

JSONparse(jsonContent) ==
    IF jsonContent.kind = "invalid" THEN Throw("Unexpected token")
    ELSE Return(jsonContent)

\* data[name] ?? [] : a number has no properties.
FieldOrEmpty(data, name) ==
    IF data.kind # "object" \/ data[name].kind = "absent" THEN List(<<>>)
    ELSE data[name]

\* Every entry counts, with or without an id.
ItemIdsOfAllEntries(loadout) ==
    LET entries == Get(loadout.equipped) \o Get(loadout.unequipped)
    IN [k \in 1..Len(entries) |->
           IF IsSome(entries[k].id) THEN Get(entries[k].id) ELSE 0]

\* The inner loop over [...loadout.equipped, ...loadout.unequipped].
ItemIds(loadout) ==
    LET entries == Get(loadout.equipped) \o Get(loadout.unequipped)
        HasId(entry) == IsSome(entry.id) /\ Get(entry.id) # 0
        withId == SelectSeq(entries, HasId)
    IN [k \in 1..Len(withId) |-> Get(withId[k].id)]

Loadout(name, itemIds) == [name |-> name, itemIds |-> itemIds]

\* The loop over loadoutData; a missing list cannot be spread.
ParseLoadouts(loadoutData) ==
    IF loadoutData.kind # "list" THEN Throw("loadoutData is not iterable")
    ELSE IF \E k \in 1..Len(loadoutData.list) :
                \/ ~IsSome(loadoutData.list[k].equipped)
                \/ ~IsSome(loadoutData.list[k].unequipped)
    THEN Throw("loadout.equipped is not iterable")
    ELSE LET all == [k \in 1..Len(loadoutData.list) |->
                        Loadout(loadoutData.list[k].name,
                                ItemIds(loadoutData.list[k]))]
             HasItems(l) == Len(l.itemIds) > 0
         IN Return(SelectSeq(all, HasItems))

\* The first value set under a key stays.
TagsSetIfAbsent(map, key, value) ==
    IF key \in DOMAIN map THEN map
    ELSE [x \in (DOMAIN map) \cup {key} |-> IF x = key THEN value ELSE map[x]]

\* Map.prototype.set
TagsSet(map, key, value) ==
    [x \in (DOMAIN map) \cup {key} |-> IF x = key THEN value ELSE map[x]]

NotesSet(map, key, value) ==
    [x \in (DOMAIN map) \cup {key} |-> IF x = key THEN value ELSE map[x]]

\* The loop over tagData.
ParseTags(tagData) ==
    IF tagData.kind # "list" THEN Throw("tagData is not iterable")
    ELSE IF \E k \in 1..Len(tagData.list) : ~IsSome(tagData.list[k])
    THEN Throw("Cannot read properties of null")
    ELSE LET tags[k \in 0..Len(tagData.list)] ==
                 IF k = 0 THEN <<>>
                 ELSE TagsSet(tags[k - 1], Get(tagData.list[k]).id,
                              Get(tagData.list[k]).tag)
         IN Return(tags[Len(tagData.list)])

\* if (annotation.tag), if (annotation.notes): the field is there and is not
\* the empty string.
IsGiven(field) == IsSome(field) /\ Get(field) # ""

\* The loop over annotationData, which goes on with the tags of the loop
\* before.
ParseAnnotations(annotationData, legacy) ==
    IF annotationData.kind # "list" THEN Throw("annotationData is not iterable")
    ELSE IF \E k \in 1..Len(annotationData.list) : ~IsSome(annotationData.list[k])
    THEN Throw("Cannot read properties of null")
    ELSE LET record(k) == Get(annotationData.list[k])
             tags[k \in 0..Len(annotationData.list)] ==
                 IF k = 0 THEN legacy
                 ELSE IF IsGiven(record(k).tag)
                 THEN TagsSet(tags[k - 1], record(k).id, Get(record(k).tag))
                 ELSE tags[k - 1]
             notes[k \in 0..Len(annotationData.list)] ==
                 IF k = 0 THEN <<>>
                 ELSE IF IsGiven(record(k).notes)
                 THEN NotesSet(notes[k - 1], record(k).id, Get(record(k).notes))
                 ELSE notes[k - 1]
         IN Return([tags |-> tags[Len(annotationData.list)],
                    notes |-> notes[Len(annotationData.list)]])

\* parseExport returns the backup or throws.
parseExport(data) ==
    IF data.kind = "null" THEN Throw("Cannot read properties of null")
    ELSE LET loadouts == ParseLoadouts(FieldOrEmpty(data, "loadouts"))
             tags == ParseTags(FieldOrEmpty(data, "tags"))
         IN IF loadouts.threw THEN loadouts
            ELSE IF tags.threw THEN tags
            ELSE LET annotations ==
                         ParseAnnotations(FieldOrEmpty(data, "annotations"),
                                          Get(tags.value))
                 IN IF annotations.threw THEN annotations
                    ELSE Return([loadouts |-> Get(loadouts.value),
                                 tags |-> Get(annotations.value).tags,
                                 notes |-> Get(annotations.value).notes])

Success(data) == [success |-> TRUE, data |-> Some(data), error |-> <<>>]
Failure(text, message) == [success |-> FALSE, data |-> None, error |-> <<text, message>>]

\* The try block of parseFromString, as far as it gets.
TryParse(jsonContent) ==
    LET data == JSONparse(jsonContent)
    IN IF data.threw THEN data ELSE parseExport(Get(data.value))

\* The value parseFromString returns.
parseFromString(jsonContent) ==
    LET backupOrThrow == TryParse(jsonContent)
    IN IF backupOrThrow.threw
       THEN Failure("Failed to parse DIM backup: ", backupOrThrow.message)
       ELSE Success(Get(backupOrThrow.value))

\* A failed parse leaves no backup loaded.
BackupClearedOnFailure(b, jsonContent) ==
    LET backupOrThrow == TryParse(jsonContent)
    IN IF backupOrThrow.threw THEN None ELSE backupOrThrow.value

\* DIMParser.backup after parseFromString: the assignment is the statement
\* after parseExport.
BackupAfterParse(b, jsonContent) ==
    LET backupOrThrow == TryParse(jsonContent)
    IN IF backupOrThrow.threw THEN b ELSE backupOrThrow.value

(***************************************************************************)
(* CleanupPlanner                                                          *)
(***************************************************************************)
DefaultHighStatThreshold == 65

DEFAULT_PROTECTION_RULES ==
    [protectDIMLoadouts |-> TRUE,
     protectLockedItems |-> TRUE,
     protectMasterworked |-> TRUE,
     protectExotics |-> TRUE,
     protectHighStatArmor |-> TRUE,
     highStatThreshold |-> DefaultHighStatThreshold,
     customProtectedIds |-> <<>>]

\* One entry of a reason or of protectedBy: the fixed text, the loadout names
\* and the number it prints.
Part(text, names, n) == [text |-> text, names |-> names, n |-> n]

Names(ls) == [k \in 1..Len(ls) |-> ls[k].name]

Rec(item, action, reason, score, protectedBy) ==
    [item |-> item, action |-> action, reason |-> reason, score |-> score,
     protectedBy |-> protectedBy]

\* The first matching rule only.
ProtectedByFirst(item, b, rules) ==
    LET loadouts == getLoadoutsForItem(b, item.itemInstanceId)
        tag == getTag(b, item.itemInstanceId)
    IN IF rules.protectDIMLoadouts /\ loaded(b) /\ Len(loadouts) > 0
       THEN <<Part("DIM Loadouts", Names(loadouts), 0)>>
       ELSE IF rules.protectLockedItems /\ item.isLocked
       THEN <<Part("Locked in game", <<>>, 0)>>
       ELSE IF rules.protectMasterworked /\ item.isMasterworked
       THEN <<Part("Masterworked", <<>>, 0)>>
       ELSE IF rules.protectExotics /\ item.tier = Exotic
       THEN <<Part("Exotic item", <<>>, 0)>>
       ELSE IF Includes(rules.customProtectedIds, item.itemInstanceId)
       THEN <<Part("Custom protection", <<>>, 0)>>
       ELSE IF loaded(b) /\ tag = Some("favorite")
       THEN <<Part("DIM Favorite", <<>>, 0)>>
       ELSE IF loaded(b) /\ tag = Some("keep")
       THEN <<Part("DIM Keep tag", <<>>, 0)>>
       ELSE <<>>

\* The protection checks of analyzeItem, in the order of the code.
ProtectedBy(item, b, rules) ==
    LET loadouts == getLoadoutsForItem(b, item.itemInstanceId)
        tag == getTag(b, item.itemInstanceId)
    IN (IF rules.protectDIMLoadouts /\ loaded(b) /\ Len(loadouts) > 0
        THEN <<Part("DIM Loadouts", Names(loadouts), 0)>> ELSE <<>>)
       \o (IF rules.protectLockedItems /\ item.isLocked
           THEN <<Part("Locked in game", <<>>, 0)>> ELSE <<>>)
       \o (IF rules.protectMasterworked /\ item.isMasterworked
           THEN <<Part("Masterworked", <<>>, 0)>> ELSE <<>>)
       \o (IF rules.protectExotics /\ item.tier = Exotic
           THEN <<Part("Exotic item", <<>>, 0)>> ELSE <<>>)
       \o (IF Includes(rules.customProtectedIds, item.itemInstanceId)
           THEN <<Part("Custom protection", <<>>, 0)>> ELSE <<>>)
       \o (IF loaded(b) /\ tag = Some("favorite")
           THEN <<Part("DIM Favorite", <<>>, 0)>>
           ELSE IF loaded(b) /\ tag = Some("keep")
           THEN <<Part("DIM Keep tag", <<>>, 0)>> ELSE <<>>)

\* The reasons analyzeItem hands on to analyzeArmor or analyzeWeapon.
TagReasons(item, b) ==
    IF loaded(b) /\ getTag(b, item.itemInstanceId) = Some("junk")
    THEN <<Part("Tagged as junk in DIM", <<>>, 0)>>
    ELSE <<>>

\* The test of the loop of hasBetterDuplicate; without itemScore there is no
\* loop.
IsBetterExchanged(dupeScore, itemScore) ==
    /\ IsSome(itemScore)
    /\ IsSome(dupeScore)
    /\ Get(itemScore).totalScore > Get(dupeScore).totalScore + 10
IsBetter(dupeScore, itemScore) ==
    /\ IsSome(itemScore)
    /\ IsSome(dupeScore)
    /\ Get(dupeScore).totalScore > Get(itemScore).totalScore + 10

hasBetterDuplicate(item, allItems) ==
    LET IsDupe(i) == /\ i.itemHash = item.itemHash
                     /\ i.itemInstanceId # item.itemInstanceId
                     /\ i.itemType = "armor"
        duplicates == SelectSeq(allItems, IsDupe)
    IN IF Len(duplicates) = 0 THEN FALSE
       ELSE \E k \in 1..Len(duplicates) :
               IsBetter(scoreArmor(duplicates[k], STAT_PROFILES),
                        scoreArmor(item, STAT_PROFILES))

\* The high-stat test of analyzeArmor.
IsHighStatAbove(rules, total) ==
    rules.protectHighStatArmor /\ total > rules.highStatThreshold
IsHighStat(rules, total) ==
    rules.protectHighStatArmor /\ total >= rules.highStatThreshold

\* The high-stat return of analyzeArmor.
HighStatRecReview(item, score, total) ==
    Rec(item, "REVIEW", <<Part("High stat armor", <<>>, total)>>,
        Some(score), <<Part("High stats", <<>>, total)>>)
HighStatRec(item, score, total) ==
    Rec(item, "KEEP", <<Part("High stat armor", <<>>, total)>>,
        Some(score), <<Part("High stats", <<>>, total)>>)

\* analyzeArmor once the item is scored.
ScoredArmor(item, allItems, existingReasons, rules, armorScore) ==
       IF IsSome(armorScore) THEN
           LET score == Get(armorScore).totalScore
               total == Get(item.stats).total
           IN IF IsHighStat(rules, total) THEN
                  HighStatRec(item, score, total)
              ELSE IF score >= 75 THEN
                  Rec(item, "KEEP",
                      Append(existingReasons, Part("Excellent armor score", <<>>, score)),
                      Some(score), <<>>)
              ELSE IF score >= 50 THEN
                  IF hasBetterDuplicate(item, allItems) THEN
                      Rec(item, "REVIEW",
                          existingReasons
                              \o <<Part("Decent armor score", <<>>, score),
                                   Part("Better duplicate exists", <<>>, 0)>>,
                          Some(score), <<>>)
                  ELSE
                      Rec(item, "KEEP",
                          Append(existingReasons, Part("Decent armor score", <<>>, score)),
                          Some(score), <<>>)
              ELSE IF score >= 30 THEN
                  Rec(item, "REVIEW",
                      Append(existingReasons, Part("Below average armor score", <<>>, score)),
                      Some(score), <<>>)
              ELSE
                  Rec(item, "JUNK",
                      Append(existingReasons, Part("Poor armor score", <<>>, score)),
                      Some(score), <<>>)
       ELSE
           Rec(item, "REVIEW",
               Append(existingReasons, Part("Unable to score (no stats)", <<>>, 0)),
               None, <<>>)

analyzeArmor(item, allItems, existingReasons, rules) ==
    ScoredArmor(item, allItems, existingReasons, rules, scoreArmor(item, STAT_PROFILES))

\* The item stands after its duplicates in allCopies.
analyzeWeaponItemLast(item, allItems, existingReasons) ==
    LET IsDupe(i) == /\ i.itemHash = item.itemHash
                     /\ i.itemInstanceId # item.itemInstanceId
        duplicates == SelectSeq(allItems, IsDupe)
        allCopies == duplicates \o <<item>>
        sorted == StableSort(allCopies, "weapon")
        bestCopy == sorted[1]
    IN IF Len(duplicates) = 0 THEN
           Rec(item, "KEEP",
               Append(existingReasons, Part("Only copy of this weapon", <<>>, 0)),
               None, <<>>)
       ELSE IF bestCopy.itemInstanceId = item.itemInstanceId THEN
           Rec(item, "KEEP",
               Append(existingReasons,
                      Part("Best copy among duplicates", <<>>, Len(allCopies))),
               None, <<>>)
       ELSE
           Rec(item, "JUNK",
               existingReasons
                   \o <<Part("Duplicate (others exist)", <<>>, Len(duplicates)),
                        Part("Not the best copy", <<>>, 0)>>,
               None, <<>>)

analyzeWeapon(item, allItems, existingReasons) ==
    LET IsDupe(i) == /\ i.itemHash = item.itemHash
                     /\ i.itemInstanceId # item.itemInstanceId
        duplicates == SelectSeq(allItems, IsDupe)
        allCopies == <<item>> \o duplicates
        sorted == StableSort(allCopies, "weapon")
        bestCopy == sorted[1]
    IN IF Len(duplicates) = 0 THEN
           Rec(item, "KEEP",
               Append(existingReasons, Part("Only copy of this weapon", <<>>, 0)),
               None, <<>>)
       ELSE IF bestCopy.itemInstanceId = item.itemInstanceId THEN
           Rec(item, "KEEP",
               Append(existingReasons,
                      Part("Best copy among duplicates", <<>>, Len(allCopies))),
               None, <<>>)
       ELSE
           Rec(item, "JUNK",
               existingReasons
                   \o <<Part("Duplicate (others exist)", <<>>, Len(duplicates)),
                        Part("Not the best copy", <<>>, 0)>>,
               None, <<>>)

\* A junk tag decides the action.
analyzeItemJunkTag(item, allItems, b, rules) ==
    LET protectedBy == ProtectedBy(item, b, rules)
        reasons == TagReasons(item, b)
    IN IF Len(protectedBy) > 0 THEN
           Rec(item, "KEEP", <<Part("Protected", <<>>, 0)>> \o protectedBy,
               None, protectedBy)
       ELSE IF Len(reasons) > 0 THEN
           Rec(item, "JUNK", reasons, None, <<>>)
       ELSE IF item.itemType = "armor" THEN
           analyzeArmor(item, allItems, reasons, rules)
       ELSE
           analyzeWeapon(item, allItems, reasons)

analyzeItem(item, allItems, b, rules) ==
    LET protectedBy == ProtectedBy(item, b, rules)
        reasons == TagReasons(item, b)
    IN IF Len(protectedBy) > 0 THEN
           Rec(item, "KEEP", <<Part("Protected", <<>>, 0)>> \o protectedBy,
               None, protectedBy)
       ELSE IF item.itemType = "armor" THEN
           analyzeArmor(item, allItems, reasons, rules)
       ELSE
           analyzeWeapon(item, allItems, reasons)

CountAction(recs, a) == Cardinality({k \in 1..Len(recs) : recs[k].action = a})

\* The plan, from the sorted recommendations.
Plan(recommendations) ==
    [summary |->
        [totalAnalyzed |-> Len(recommendations),
         keep |-> CountAction(recommendations, "KEEP"),
         review |-> CountAction(recommendations, "REVIEW"),
         junk |-> CountAction(recommendations, "JUNK"),
         protectedItems |->
             Cardinality({k \in 1..Len(recommendations) :
                             Len(recommendations[k].protectedBy) > 0})],
     recommendations |-> recommendations,
     generatedAt |-> now]

\* The recommendations in the order of the items.
Analyzed(targetItems, b, rules) ==
    [k \in 1..Len(targetItems) |-> analyzeItem(targetItems[k], targetItems, b, rules)]

\* The location is not looked at.
IsTargetAnywhere(item, onlyVault) ==
    item.itemType = "weapon" \/ item.itemType = "armor"
\* The filter of generatePlan.
IsTarget(item, onlyVault) ==
    /\ ~(onlyVault /\ item.location # Vault)
    /\ (item.itemType = "weapon" \/ item.itemType = "armor")

generatePlan(items, b, rules, onlyVault) ==
    LET Target(item) == IsTarget(item, onlyVault)
    IN Plan(StableSort(Analyzed(SelectSeq(items, Target), b, rules), "action"))

(***************************************************************************)
(* DuplicateFinder                                                         *)
(***************************************************************************)
DefaultMinDuplicates == 2
DefaultKeepCount == 1

DEFAULT_OPTIONS ==
    [includeWeapons |-> TRUE,
     includeArmor |-> TRUE,
     minDuplicates |-> DefaultMinDuplicates,
     keepCount |-> DefaultKeepCount]

\* item.itemHash.toString() and parseInt(hash), on the decimal digits of a
\* definition identifier (an unsigned integer).
RECURSIVE toString(_)
toString(n) == IF n < 10 THEN <<n>> ELSE Append(toString(n \div 10), n % 10)

RECURSIVE parseInt(_)
parseInt(digits) ==
    IF Len(digits) = 0 THEN 0
    ELSE 10 * parseInt(SubSeq(digits, 1, Len(digits) - 1)) + digits[Len(digits)]

\* One line of a recommendation's reasoning: the fixed text, the items it
\* names and the number it prints.
Line(text, items, n) ==
    [text |-> text, items |-> [k \in 1..Len(items) |-> items[k].itemInstanceId],
     n |-> n]

\* Masterworked copies are not held back.
IsLockedCopy(item) == item.isLocked
IsProtectedCopy(item) == item.isLocked \/ item.isMasterworked

\* Every tentative discard stays a discard.
allDiscard(discard) == discard
\* The discard list that recommendArmor returns.
unprotectedDiscard(discard) ==
    LET IsUnprotected(item) == ~IsProtectedCopy(item)
    IN SelectSeq(discard, IsUnprotected)

\* The margin is reached, not exceeded.
RemainingDecisionFrom15(bestScore, score) ==
    IF bestScore - score >= 15 THEN "significantly worse than best"
    ELSE IF score >= 60 THEN "may be useful for specific builds"
    ELSE "low quality"
\* The decision of recommendArmor on a scored member that is not kept.
RemainingDecision(bestScore, score) ==
    IF bestScore - score > 15 THEN "significantly worse than best"
    ELSE IF score >= 60 THEN "may be useful for specific builds"
    ELSE "low quality"

ItemsOf(scored) == [k \in 1..Len(scored) |-> scored[k].item]

\* recommendArmor once the members are scored, split and sorted.
ArmorRecommendation(withScores, withoutScores, keepCount) ==
    LET kept == SubSeq(withScores, 1, Min(keepCount, Len(withScores)))
        remaining == SubSeq(withScores, keepCount + 1, Len(withScores))
        Decision(s) == RemainingDecision(Get(withScores[1].score).totalScore,
                                         Get(s.score).totalScore)
        IsReview(s) == Decision(s) = "may be useful for specific builds"
        IsDiscard(s) == ~IsReview(s)
        discard == ItemsOf(SelectSeq(remaining, IsDiscard))
        moved == SelectSeq(discard, IsProtectedCopy)
    IN [keep |-> ItemsOf(kept),
        discard |-> unprotectedDiscard(discard),
        review |-> ItemsOf(SelectSeq(remaining, IsReview)) \o ItemsOf(withoutScores)
                   \o moved,
        reasoning |->
            [k \in 1..Len(kept) |->
                Line("Keep", <<kept[k].item>>, Get(kept[k].score).totalScore)]
            \o [k \in 1..Len(remaining) |->
                   Line(IF IsReview(remaining[k]) THEN "Review" ELSE "Discard",
                        <<remaining[k].item>>, Get(remaining[k].score).totalScore)]
            \o [k \in 1..Len(withoutScores) |->
                   Line("Review (no stats available)", <<withoutScores[k].item>>, 0)]
            \o [k \in 1..Len(moved) |->
                   Line(IF moved[k].isLocked THEN "Moved to review (locked)"
                        ELSE "Moved to review (masterworked)", <<moved[k]>>, 0)]]

\* The members with the scores of the finder's own scorer.
ScoreAll(items) ==
    [k \in 1..Len(items) |->
        [item |-> items[k], score |-> scoreArmor(items[k], STAT_PROFILES)]]

SplitScored(scored, keepCount) ==
    LET HasScore(s) == IsSome(s.score)
        NoScore(s) == ~IsSome(s.score)
    IN ArmorRecommendation(StableSort(SelectSeq(scored, HasScore), "score"),
                           SelectSeq(scored, NoScore), keepCount)

recommendArmor(items, keepCount) == SplitScored(ScoreAll(items), keepCount)

\* recommendWeapons once the copies are sorted.
WeaponRecommendation(sorted, keepCount) ==
    LET keep == SubSeq(sorted, 1, Min(keepCount, Len(sorted)))
        remaining == SubSeq(sorted, keepCount + 1, Len(sorted))
        IsUnprotected(item) == ~IsProtectedCopy(item)
        discard == SelectSeq(remaining, IsUnprotected)
        review == SelectSeq(remaining, IsProtectedCopy)
    IN [keep |-> keep,
        discard |-> discard,
        review |-> review,
        reasoning |->
            <<Line("Keep", keep, 0)>>
            \o (IF Len(discard) > 0
                THEN <<Line("Discard lower-priority duplicates", <<>>, Len(discard))>>
                ELSE <<>>)
            \o (IF Len(review) > 0
                THEN <<Line("Review items (locked or masterworked)", <<>>, Len(review))>>
                ELSE <<>>)]

recommendWeapons(items, keepCount) ==
    WeaponRecommendation(StableSort(items, "weapon"), keepCount)

generateRecommendation(items, keepCount) ==
    IF items[1].itemType = "armor"
    THEN recommendArmor(items, keepCount)
    ELSE recommendWeapons(items, keepCount)

\* The include option of armor is not consulted.
IsEligibleArmorAlways(item, opts) ==
    /\ ~(item.itemType = "weapon" /\ ~opts.includeWeapons)
    /\ item.itemType # "other"
\* The items that the first loop of findDuplicates does not skip.
IsEligible(item, opts) ==
    /\ ~(item.itemType = "weapon" /\ ~opts.includeWeapons)
    /\ ~(item.itemType = "armor" /\ ~opts.includeArmor)
    /\ item.itemType # "other"

\* The keys of the map, in the order of their insertion.
GroupKeys(eligible) ==
    LET key(k) == toString(eligible[k].itemHash)
        IsFirst(k) == \A j \in 1..(k - 1) : key(j) # key(k)
        firsts == SelectSeq([k \in 1..Len(eligible) |-> k], IsFirst)
    IN [g \in 1..Len(firsts) |-> key(firsts[g])]

\* The value of the map under one key.
GroupItems(eligible, hash) ==
    LET HasKey(item) == toString(item.itemHash) = hash
    IN SelectSeq(eligible, HasKey)

\* One DuplicateGroup; name, slot and classType are those of groupItems[1].
DuplicateGroup(hash, groupItems, keepCount) ==
    [itemHash |-> parseInt(hash),
     items |-> groupItems,
     recommendation |-> generateRecommendation(groupItems, keepCount)]

\* The second loop of findDuplicates and the final sort.
GroupsOf(eligible, keys, opts) ==
    LET IsBigEnough(hash) == ~(Len(GroupItems(eligible, hash)) < opts.minDuplicates)
        kept == SelectSeq(keys, IsBigEnough)
    IN StableSort([g \in 1..Len(kept) |->
                      DuplicateGroup(kept[g], GroupItems(eligible, kept[g]),
                                     opts.keepCount)],
                  "size")

EligibleItems(items, opts) ==
    LET Eligible(item) == IsEligible(item, opts)
    IN SelectSeq(items, Eligible)

GroupEligible(eligible, opts) == GroupsOf(eligible, GroupKeys(eligible), opts)

findDuplicates(items, opts) == GroupEligible(EligibleItems(items, opts), opts)

(***************************************************************************)
(* VaultCuratorServer: the tool calls                                      *)
(***************************************************************************)
\* What the handler of CallToolRequestSchema returns: the value of the tool,
\* or the message of the error it threw with isError set.
ToolResult(name, value) == [op |-> name, isError |-> FALSE, result |-> value]
ToolError(name, message) == [op |-> name, isError |-> TRUE, result |-> message]

\* x ?? y
OrElse(x, y) == IF IsSome(x) THEN Get(x) ELSE y

\* Array.prototype.slice(0, end)
SliceTo(s, end) ==
    LET to == IF end < 0 THEN Max(Len(s) + end, 0) ELSE Min(end, Len(s))
    IN SubSeq(s, 1, to)

\* updateProtectionRules with the four rules generateCleanupPlan passes.
updateProtectionRules(rules, args) ==
    [rules EXCEPT !.protectLockedItems = OrElse(args.protectLockedItems, TRUE),
                  !.protectMasterworked = OrElse(args.protectMasterworked, TRUE),
                  !.protectExotics = OrElse(args.protectExotics, TRUE),
                  !.highStatThreshold =
                      OrElse(args.highStatThreshold, DefaultHighStatThreshold)]

JunkRecs(plan) ==
    LET IsJunk(r) == r.action = "JUNK"
    IN SelectSeq(plan.recommendations, IsJunk)

\* CleanupPlanner.getJunkItems
getJunkItems(plan) == [k \in 1..Len(JunkRecs(plan)) |-> JunkRecs(plan)[k].item]

\* The value of destiny_get_junk_items.
JunkItemsReport(plan) ==
    [count |-> Len(JunkRecs(plan)),
     items |-> [k \in 1..Len(JunkRecs(plan)) |->
                   [instanceId |-> JunkRecs(plan)[k].item.itemInstanceId,
                    itemHash |-> JunkRecs(plan)[k].item.itemHash,
                    reason |-> JunkRecs(plan)[k].reason,
                    stats |-> JunkRecs(plan)[k].item.stats]]]

DefaultMaxItems == 10

\* The items destiny_move_junk_to_character transfers.
ToMove(plan, maxItems) ==
    LET InVault(i) == i.location = Vault
        vaultJunk == SelectSeq(getJunkItems(plan), InVault)
    IN SliceTo(vaultJunk, OrElse(maxItems, DefaultMaxItems))

TransferRequest(item, characterId) ==
    [itemInstanceId |-> item.itemInstanceId, itemHash |-> item.itemHash,
     targetCharacterId |-> characterId]

\* The value of destiny_move_junk_to_character; results are the outcomes of
\* the transfers.
MoveReport(toMove, results) ==
    LET successful == Cardinality({k \in 1..Len(toMove) : results[k]})
    IN [moved |-> successful,
        failed |-> Len(toMove) - successful,
        details |-> [k \in 1..Len(toMove) |->
                        [item |-> toMove[k].itemInstanceId, success |-> results[k]]]]

\* An item with a DIM tag is not safe.
IsSafeUntagged(item, inLoadouts, tag) ==
    /\ Len(inLoadouts) = 0
    /\ tag = None
    /\ ~item.isLocked
    /\ ~item.isMasterworked

IsSafe(item, inLoadouts, tag) ==
    /\ Len(inLoadouts) = 0
    /\ tag # Some("favorite")
    /\ tag # Some("keep")
    /\ ~item.isLocked
    /\ ~item.isMasterworked

\* The value of destiny_check_build_safety for an item of the inventory.
checkBuildSafety(item, b) ==
    LET inLoadouts == getLoadoutsForItem(b, item.itemInstanceId)
        tag == getTag(b, item.itemInstanceId)
        note == getNote(b, item.itemInstanceId)
    IN [instanceId |-> item.itemInstanceId,
        safeToDismantle |-> IsSafe(item, inLoadouts, tag),
        loadouts |-> Names(inLoadouts),
        dimTag |-> tag,
        dimNote |-> note,
        isLocked |-> item.isLocked,
        isMasterworked |-> item.isMasterworked]

\* DIMParser.getSummary
getSummary(b) ==
    [loadoutCount |-> Len(Get(b).loadouts),
     taggedItemCount |-> Cardinality(DOMAIN Get(b).tags),
     loadoutItemCount |->
         Cardinality(UNION {{Get(b).loadouts[k].itemIds[j] :
                                j \in 1..Len(Get(b).loadouts[k].itemIds)} :
                               k \in 1..Len(Get(b).loadouts)})]

\* The value of destiny_get_inventory.
InventoryReport(items) ==
    [totalItems |-> Len(items),
     weapons |-> Cardinality({k \in 1..Len(items) : items[k].itemType = "weapon"}),
     armor |-> Cardinality({k \in 1..Len(items) : items[k].itemType = "armor"}),
     vaultItems |-> Cardinality({k \in 1..Len(items) : items[k].location = Vault})]

(***************************************************************************)
(* The operations as actions                                               *)
(***************************************************************************)
NoOutput == [op |-> "none", item1 |-> 0, item2 |-> 0, result |-> None]

\* No document is at hand and the server has handled no call.
NoDocument == [kind |-> "none"]
NoServer ==
    /\ document = NoDocument
    /\ bungieClient = FALSE
    /\ cleanupPlanner = FALSE
    /\ requests = <<>>

\* scorer.scoreArmor(inventory[i])
ScoreArmor(i) ==
    /\ output' = [op |-> "scoreArmor", item1 |-> i, item2 |-> 0,
                  result |-> scoreArmor(inventory[i], profiles)]
    /\ UNCHANGED <<inventory, backup, protectionRules, config, currentPlan,
                   profiles, options, duplicateGroups, now, fpDown, serverVars>>

\* scorer.compareArmor(inventory[i], inventory[j])
CompareArmor(i, j) ==
    /\ output' = [op |-> "compareArmor", item1 |-> i, item2 |-> j,
                  result |-> compareArmor(inventory[i], inventory[j], profiles)]
    /\ UNCHANGED <<inventory, backup, protectionRules, config, currentPlan,
                   profiles, options, duplicateGroups, now, fpDown, serverVars>>

\* scorer.addProfile(p.id, p), which returns nothing
AddProfile(p) ==
    /\ profiles' = MapSet(profiles, p.id, p.weights)
    /\ output' = [op |-> "addProfile", item1 |-> 0, item2 |-> 0, result |-> None]
    /\ UNCHANGED <<inventory, backup, protectionRules, config, currentPlan,
                   options, duplicateGroups, now, fpDown, serverVars>>

\* The number of plans made in one behaviour.
MaxCalls == 2

\* generatePlan sorts the caller's item list in place.
GeneratePlanSortingItems ==
    /\ now < MaxCalls
    /\ currentPlan' =
           Some(generatePlan(inventory, backup, protectionRules, config.onlyVault))
    /\ inventory' = StableSort(inventory, "weapon")
    /\ now' = now + 1
    /\ UNCHANGED <<backup, protectionRules, config, profiles, output,
                   options, duplicateGroups, fpDown, serverVars>>

\* planner.generatePlan(inventory); the variable output is the scorer's.  The
\* clock has moved on when the next plan is made.
GeneratePlan ==
    /\ now < MaxCalls
    /\ currentPlan' =
           Some(generatePlan(inventory, backup, protectionRules, config.onlyVault))
    /\ now' = now + 1
    /\ UNCHANGED <<inventory, backup, protectionRules, config, profiles, output,
                   options, duplicateGroups, fpDown, serverVars>>

\* findDuplicates sorts the caller's item list in place.
FindDuplicatesSortingItems ==
    /\ duplicateGroups' = Some(findDuplicates(inventory, options))
    /\ inventory' = StableSort(inventory, "weapon")
    /\ UNCHANGED <<backup, protectionRules, config, currentPlan,
                   profiles, output, options, now, fpDown, serverVars>>

\* finder.findDuplicates(inventory)
FindDuplicates ==
    /\ duplicateGroups' = Some(findDuplicates(inventory, options))
    /\ UNCHANGED <<inventory, backup, protectionRules, config, currentPlan,
                   profiles, output, options, now, fpDown, serverVars>>

\* parser.parseFromString(jsonContent)
ParseFromString(jsonContent) ==
    /\ backup' = BackupAfterParse(backup, jsonContent)
    /\ output' = [op |-> "parseFromString", item1 |-> jsonContent, item2 |-> 0,
                  result |-> parseFromString(jsonContent)]
    /\ UNCHANGED <<inventory, protectionRules, config, currentPlan, profiles,
                   options, duplicateGroups, now, fpDown, document,
                   bungieClient, cleanupPlanner, requests>>

\* destiny_configure; detected: the membership was looked up, and the handler
\* returns before it makes the planner.
Configure(detected) ==
    /\ bungieClient' = TRUE
    /\ cleanupPlanner' = IF detected THEN cleanupPlanner ELSE TRUE
    /\ protectionRules' =
           IF detected THEN protectionRules ELSE DEFAULT_PROTECTION_RULES
    /\ requests' = <<>>
    /\ output' = ToolResult("destiny_configure",
                            IF detected THEN "Configured successfully"
                            ELSE "Bungie API configured successfully")
    /\ UNCHANGED <<inventory, backup, config, currentPlan, profiles, options,
                   duplicateGroups, now, fpDown, document>>

\* destiny_load_dim_backup with jsonContent; NoDocument is a call without it
\* (and without filePath).
LoadDimBackup(jsonContent) ==
    /\ backup' = IF jsonContent = NoDocument THEN backup
                 ELSE BackupAfterParse(backup, jsonContent)
    /\ requests' = <<>>
    /\ output' =
           IF jsonContent = NoDocument
           THEN ToolError("destiny_load_dim_backup",
                          <<"Either filePath or jsonContent must be provided">>)
           ELSE IF ~parseFromString(jsonContent).success
           THEN ToolError("destiny_load_dim_backup",
                          parseFromString(jsonContent).error)
           ELSE ToolResult("destiny_load_dim_backup",
                           getSummary(BackupAfterParse(backup, jsonContent)))
    /\ UNCHANGED <<inventory, protectionRules, config, currentPlan, profiles,
                   options, duplicateGroups, now, fpDown, document,
                   bungieClient, cleanupPlanner>>

\* destiny_get_inventory; fetched is what getFullInventory returns, None when
\* it fails.
GetInventory(fetched) ==
    /\ inventory' = IF bungieClient /\ IsSome(fetched) THEN Get(fetched)
                    ELSE inventory
    /\ requests' = <<>>
    /\ output' =
           IF ~bungieClient
           THEN ToolError("destiny_get_inventory",
                          "Bungie API not configured. Call destiny_configure first.")
           ELSE IF ~IsSome(fetched)
           THEN ToolError("destiny_get_inventory", "Failed to fetch inventory")
           ELSE ToolResult("destiny_get_inventory", InventoryReport(Get(fetched)))
    /\ UNCHANGED <<backup, protectionRules, config, currentPlan, profiles,
                   options, duplicateGroups, now, fpDown, document,
                   bungieClient, cleanupPlanner>>

\* destiny_generate_cleanup_plan; the text of formatPlan is left out of the
\* value.
GenerateCleanupPlan(args) ==
    /\ now < MaxCalls
    /\ cleanupPlanner' = TRUE
    /\ protectionRules' =
           updateProtectionRules(IF cleanupPlanner THEN protectionRules
                                 ELSE DEFAULT_PROTECTION_RULES, args)
    /\ currentPlan' =
           Some(generatePlan(inventory, backup, protectionRules', config.onlyVault))
    /\ now' = now + 1
    /\ requests' = <<>>
    /\ output' = ToolResult("destiny_generate_cleanup_plan",
                            Get(currentPlan').summary)
    /\ UNCHANGED <<inventory, backup, config, profiles, options,
                   duplicateGroups, fpDown, document, bungieClient>>

\* Without a plan the call returns an empty list.
GetJunkItemsOrNone ==
    /\ requests' = <<>>
    /\ output' =
           IF ~IsSome(currentPlan)
           THEN ToolResult("destiny_get_junk_items", [count |-> 0, items |-> <<>>])
           ELSE ToolResult("destiny_get_junk_items",
                           JunkItemsReport(Get(currentPlan)))
    /\ UNCHANGED <<inventory, backup, protectionRules, config, currentPlan,
                   profiles, options, duplicateGroups, now, fpDown, document,
                   bungieClient, cleanupPlanner>>

\* destiny_get_junk_items
GetJunkItems ==
    /\ requests' = <<>>
    /\ output' =
           IF ~IsSome(currentPlan)
           THEN ToolError("destiny_get_junk_items",
                          "No cleanup plan generated. Call destiny_generate_cleanup_plan first.")
           ELSE ToolResult("destiny_get_junk_items",
                           JunkItemsReport(Get(currentPlan)))
    /\ UNCHANGED <<inventory, backup, protectionRules, config, currentPlan,
                   profiles, options, duplicateGroups, now, fpDown, document,
                   bungieClient, cleanupPlanner>>

\* destiny_move_junk_to_character; succeeds holds the positions of the
\* transfers that succeed.
MoveJunkToCharacter(maxItems, succeeds) ==
    /\ requests' =
           IF bungieClient /\ IsSome(currentPlan) /\ cleanupPlanner
           THEN [k \in 1..Len(ToMove(Get(currentPlan), maxItems)) |->
                    TransferRequest(ToMove(Get(currentPlan), maxItems)[k],
                                    "character")]
           ELSE <<>>
    /\ output' =
           IF ~bungieClient
           THEN ToolError("destiny_move_junk_to_character",
                          "Bungie API not configured")
           ELSE IF ~IsSome(currentPlan) \/ ~cleanupPlanner
           THEN ToolError("destiny_move_junk_to_character",
                          "No cleanup plan generated")
           ELSE ToolResult("destiny_move_junk_to_character",
                           [maxItems |-> maxItems,
                            report |->
                                MoveReport(ToMove(Get(currentPlan), maxItems),
                                           [k \in 1..Len(ToMove(Get(currentPlan), maxItems))
                                               |-> k \in succeeds])])
    /\ UNCHANGED <<inventory, backup, protectionRules, config, currentPlan,
                   profiles, options, duplicateGroups, now, fpDown, document,
                   bungieClient, cleanupPlanner>>

\* destiny_check_build_safety
CheckBuildSafety(itemInstanceId) ==
    /\ requests' = <<>>
    /\ output' =
           LET found == {k \in 1..Len(inventory) :
                            inventory[k].itemInstanceId = itemInstanceId}
           IN IF found = {}
              THEN ToolError("destiny_check_build_safety",
                             <<"Item not found: ", itemInstanceId>>)
              ELSE ToolResult("destiny_check_build_safety",
                              checkBuildSafety(
                                  inventory[CHOOSE k \in found :
                                                \A j \in found : k <= j],
                                  backup))
    /\ UNCHANGED <<inventory, backup, protectionRules, config, currentPlan,
                   profiles, options, duplicateGroups, now, fpDown, document,
                   bungieClient, cleanupPlanner>>

(***************************************************************************)
(* Inputs                                                                  *)
(***************************************************************************)
Item(id, hash, type, tier, location, locked, masterworked, power, stats) ==
    [itemInstanceId |-> id, itemHash |-> hash, itemType |-> type, tier |-> tier,
     location |-> location, isLocked |-> locked, isMasterworked |-> masterworked,
     powerLevel |-> power, stats |-> stats]

WithId(t, id) == [t EXCEPT !.itemInstanceId = id]

\* The largest value of one stat, and the values a stat is drawn from: the
\* thresholds of the scorer, their neighbours, zero and the largest.
MaxStat == 42
StatGrid == {0, 2, 6, 8, 15, 20, 26, MaxStat}

ArmorWith(stats) == Item(0, 2, "armor", Legendary, Vault, FALSE, FALSE, 1800, stats)
ArmorNoStats == ArmorWith(None)
PlainWeapon == Item(0, 1, "weapon", Legendary, Vault, FALSE, FALSE, 1800, None)

\* The items whose exact halves a rounding-down evaluation would change.
HalfItems(inv) ==
    {k \in 1..Len(inv) :
        /\ IsScorable(inv[k])
        /\ \E j \in 1..Len(STAT_PROFILES) :
               HasExactHalf(Get(inv[k].stats), STAT_PROFILES[j].weights)}

ScorerRest ==
    /\ backup = None
    /\ protectionRules = DEFAULT_PROTECTION_RULES
    /\ config = [onlyVault |-> TRUE]
    /\ currentPlan = None
    /\ profiles = STAT_PROFILES
    /\ output = NoOutput
    /\ options = DEFAULT_OPTIONS
    /\ duplicateGroups = None
    /\ now = 0
    /\ fpDown \in SUBSET HalfItems(inventory)
    /\ NoServer

\* One armor item with every stat vector over the grid, or an unscorable item.
InitScore ==
    /\ \/ \E m, r, c, d, i, s \in StatGrid :
              inventory = <<WithId(ArmorWith(Some(ExtractArmorStats(m, r, c, d, i, s))), 1)>>
       \/ inventory \in {<<WithId(ArmorNoStats, 1)>>, <<WithId(PlainWeapon, 1)>>}
    /\ ScorerRest

NextScore == \E i \in 1..Len(inventory) : ScoreArmor(i)

SpecScore == InitScore /\ [][NextScore]_vars

\* Two items: armor whose mobility, whose resilience and recovery (equal) and
\* whose last three stats (equal) are drawn from small sets, armor without
\* stats, a weapon.
CmpHigh == {0, 15, 26}
CmpLow == {0, 6}
CmpTemplates ==
    {ArmorWith(Some(ExtractArmorStats(m, r, r, d, d, d))) :
        m \in CmpHigh, r \in CmpHigh, d \in CmpLow}
    \cup {ArmorNoStats, PlainWeapon}

\* A late copy of the first profile, and new weights under the first key.
CustomProfiles ==
    {[id |-> "custom", weights |-> Weights(15, 12, 13, 8, 7, 5)],
     [id |-> "pvp_hunter", weights |-> Weights(3, 15, 12, 13, 5, 5)]}

InitCompare ==
    /\ \E a, b \in CmpTemplates : inventory = <<WithId(a, 1), WithId(b, 2)>>
    /\ ScorerRest

NextCompare ==
    \/ \E i \in 1..Len(inventory) : ScoreArmor(i)
    \/ \E i, j \in 1..Len(inventory) : CompareArmor(i, j)
    \/ \E p \in CustomProfiles : AddProfile(p)

SpecCompare == InitCompare /\ [][NextCompare]_vars

(***************************************************************************)
(* The planner on bounded inputs                                           *)
(***************************************************************************)
MaxItems == 2

\* Stat vectors with total scores 75, 50, 30 and 12 (totals 77, 62, 60, 52),
\* and one with the total of the default high-stat threshold (score 45).
StatsExcellent == ExtractArmorStats(2, 20, 26, 15, 6, 8)
StatsDecent == ExtractArmorStats(26, 20, 7, 3, 3, 3)
StatsBelow == ExtractArmorStats(20, 10, 10, 10, 5, 5)
StatsPoor == ExtractArmorStats(10, 10, 10, 10, 10, 2)
StatsThreshold == ExtractArmorStats(10, 10, 10, 10, 10, 15)

\* Locked, masterworked and exotic at once.
Flagged(t) == [t EXCEPT !.isLocked = TRUE, !.isMasterworked = TRUE, !.tier = Exotic]

\* Item 1 is drawn from FocusTemplates or ContextTemplates, item 2 from
\* ContextTemplates, the items after it from ExtraTemplates.
FocusTemplates ==
    {PlainWeapon,
     [PlainWeapon EXCEPT !.powerLevel = 1810],
     ArmorWith(Some(StatsExcellent)),
     ArmorWith(Some(StatsDecent)),
     ArmorWith(Some(StatsBelow)),
     ArmorWith(Some(StatsPoor)),
     ArmorWith(Some(StatsThreshold)),
     ArmorNoStats,
     Flagged(PlainWeapon),
     Flagged(ArmorWith(Some(StatsPoor))),
     [PlainWeapon EXCEPT !.location = Inventory],
     Item(0, 3, "other", Legendary, Vault, FALSE, FALSE, 0, None)}

ContextTemplates ==
    {[PlainWeapon EXCEPT !.powerLevel = 1810],
     Flagged(PlainWeapon),
     ArmorWith(Some(StatsExcellent)),
     ArmorWith(Some(StatsPoor))}

\* Further items: one more copy of the weapon or of the armor.
ExtraTemplates ==
    {Item(0, 1, "weapon", Legendary, Vault, FALSE, FALSE, 1810, None),
     ArmorWith(Some(StatsExcellent))}

Inventories ==
    UNION {{[k \in 1..n |-> WithId(f[k], k)] :
               f \in {g \in [1..n -> FocusTemplates \cup ContextTemplates] :
                         /\ \A k \in 2..n : g[k] \in ContextTemplates
                         /\ \A k \in 3..n : g[k] \in ExtraTemplates}} :
              n \in 0..MaxItems}

\* Backups: up to two loadouts that use item 1, or items 1 and 2, and at most
\* one tagged item.
LoadoutLists ==
    {<<>>, <<Loadout("Raid", <<2, 1>>)>>,
     <<Loadout("PvP", <<1>>), Loadout("Raid", <<2, 1>>)>>}

DimTags == {"favorite", "keep", "junk", "infuse"}

TagMaps ==
    {<<>>} \cup {[id \in {1} |-> t] : t \in DimTags} \cup {[id \in {2} |-> "junk"]}

Backups ==
    {None} \cup {Some([loadouts |-> l, tags |-> t, notes |-> <<>>]) :
                     l \in LoadoutLists, t \in TagMaps}

\* Every combination of the five toggles.
Toggles == [1..5 -> BOOLEAN]

RuleSets ==
    {[protectDIMLoadouts |-> t[1],
      protectLockedItems |-> t[2],
      protectMasterworked |-> t[3],
      protectExotics |-> t[4],
      protectHighStatArmor |-> t[5],
      highStatThreshold |-> DefaultHighStatThreshold,
      customProtectedIds |-> custom] :
        t \in Toggles, custom \in {<<>>, <<1>>}}

Init ==
    /\ inventory \in Inventories
    /\ backup \in Backups
    /\ protectionRules \in RuleSets
    /\ config \in {[onlyVault |-> TRUE]}
    /\ currentPlan = None
    /\ profiles = STAT_PROFILES
    /\ output = NoOutput
    /\ options = DEFAULT_OPTIONS
    /\ duplicateGroups = None
    /\ now = MaxCalls - 1
    /\ fpDown = {}
    /\ NoServer

Next == GeneratePlan

Spec == Init /\ [][Next]_vars

(***************************************************************************)
(* The planner and the finder on copies of one item                        *)
(***************************************************************************)
MaxCopies == 3
MaxMinDuplicates == 3
MaxKeepCount == 2

\* A stat vector with total score 60 (total 68).
StatsGood == ExtractArmorStats(20, 20, 10, 10, 4, 4)

Locked(t) == [t EXCEPT !.isLocked = TRUE]
Masterworked(t) == [t EXCEPT !.isMasterworked = TRUE]

\* Copies of the weapon: three power levels, a locked and a masterworked copy
\* of the lowest, a copy outside the vault, and an item of another kind with
\* the weapon's definition.
WeaponCopies ==
    {PlainWeapon,
     [PlainWeapon EXCEPT !.powerLevel = 1805],
     [PlainWeapon EXCEPT !.powerLevel = 1810],
     Locked(PlainWeapon),
     Masterworked(PlainWeapon),
     [PlainWeapon EXCEPT !.powerLevel = 1810, !.location = Inventory],
     Item(0, 1, "other", Legendary, Vault, FALSE, FALSE, 0, None)}

\* Copies of the armor: scores 75, 60, 50 and 12, no stats, and a locked copy.
ArmorCopies ==
    {ArmorWith(Some(StatsExcellent)),
     ArmorWith(Some(StatsGood)),
     ArmorWith(Some(StatsDecent)),
     ArmorWith(Some(StatsPoor)),
     ArmorNoStats,
     Locked(ArmorWith(Some(StatsPoor)))}

MixedItems ==
    {PlainWeapon,
     [PlainWeapon EXCEPT !.powerLevel = 1810],
     ArmorWith(Some(StatsExcellent)),
     ArmorWith(Some(StatsPoor)),
     Item(0, 3, "other", Legendary, Vault, FALSE, FALSE, 0, None)}

\* Up to MaxCopies weapons, or armor items, or items of both kinds.
CopyInventories ==
    UNION {{[k \in 1..n |-> WithId(f[k], k)] :
               f \in [1..n -> WeaponCopies] \cup [1..n -> ArmorCopies]
                     \cup [1..n -> MixedItems]} :
              n \in 0..MaxCopies}

NoProtection ==
    [protectDIMLoadouts |-> FALSE,
     protectLockedItems |-> FALSE,
     protectMasterworked |-> FALSE,
     protectExotics |-> FALSE,
     protectHighStatArmor |-> FALSE,
     highStatThreshold |-> DefaultHighStatThreshold,
     customProtectedIds |-> <<>>]

CopyBackups ==
    {None,
     Some([loadouts |-> <<Loadout("Raid", <<1>>)>>, tags |-> <<>>, notes |-> <<>>])}

InitCopies ==
    /\ inventory \in CopyInventories
    /\ backup \in CopyBackups
    /\ protectionRules \in {DEFAULT_PROTECTION_RULES, NoProtection}
    /\ config \in [onlyVault : BOOLEAN]
    /\ currentPlan = None
    /\ profiles = STAT_PROFILES
    /\ output = NoOutput
    /\ options = DEFAULT_OPTIONS
    /\ duplicateGroups = None
    /\ now = 0
    /\ fpDown = {}
    /\ NoServer

NextCopies == GeneratePlan

SpecCopies == InitCopies /\ [][NextCopies]_vars

\* The options a finder is constructed with: the defaults with one of the
\* kinds, of minDuplicates and of keepCount varied.
OptionSets ==
    [includeWeapons : BOOLEAN,
     includeArmor : BOOLEAN,
     minDuplicates : {DefaultMinDuplicates},
     keepCount : {DefaultKeepCount}]
    \cup [includeWeapons : {TRUE},
          includeArmor : {TRUE},
          minDuplicates : 1..MaxMinDuplicates,
          keepCount : {DefaultKeepCount}]
    \cup [includeWeapons : {TRUE},
          includeArmor : {TRUE},
          minDuplicates : {DefaultMinDuplicates},
          keepCount : 0..MaxKeepCount]

\* The finder does not look at the location of an item.
FinderInventories ==
    {inv \in CopyInventories : \A k \in 1..Len(inv) : inv[k].location = Vault}

InitDuplicates ==
    /\ inventory \in FinderInventories
    /\ backup = None
    /\ protectionRules = DEFAULT_PROTECTION_RULES
    /\ config = [onlyVault |-> TRUE]
    /\ currentPlan = None
    /\ profiles = STAT_PROFILES
    /\ output = NoOutput
    /\ options \in OptionSets
    /\ duplicateGroups = None
    /\ now = 0
    /\ fpDown = {}
    /\ NoServer

NextDuplicates == FindDuplicates

SpecDuplicates == InitDuplicates /\ [][NextDuplicates]_vars

(***************************************************************************)
(* The parser on backup documents                                          *)
(***************************************************************************)
\* The entries of one loadout and the tag and annotation records of one
\* document.
MaxEntries == 2
MaxRecords == 2

SeqsUpTo(S, n) == UNION {[1..k -> S] : k \in 0..n}

\* An entry without an id, with the empty string, with an instance id.
Entries == {[id |-> None], [id |-> Some(0)], [id |-> Some(1)], [id |-> Some(2)]}

LoadoutExport(name, equipped, unequipped) ==
    [name |-> name, equipped |-> equipped, unequipped |-> unequipped]

\* The loadout "Raid" with up to MaxEntries entries, or without the list
\* equipped.
LoadoutExports ==
    {LoadoutExport("Raid", Some(e), Some(u)) :
        <<e, u>> \in {p \in SeqsUpTo(Entries, MaxEntries) \X SeqsUpTo(Entries, MaxEntries) :
                         Len(p[1]) + Len(p[2]) <= MaxEntries}}
    \cup {LoadoutExport("Raid", None, Some(<<[id |-> Some(1)]>>))}

Document(loadouts, tags, annotations) ==
    [kind |-> "object", loadouts |-> loadouts, tags |-> tags,
     annotations |-> annotations]

PvP == LoadoutExport("PvP", Some(<<[id |-> Some(1)]>>), Some(<<>>))
Generic == LoadoutExport("Generic", Some(<<>>), Some(<<[id |-> None]>>))

\* Documents with loadouts only: one loadout, or one after a loadout with an
\* id, or one before a loadout without ids.
LoadoutDocuments ==
    {Document(List(l), Absent, Absent) :
        l \in {<<x>> : x \in LoadoutExports}
              \cup {<<PvP, x>> : x \in LoadoutExports}
              \cup {<<x, Generic>> : x \in LoadoutExports}}

TagRecords == [id : {1, 2}, tag : {"keep", "junk"}]

\* A tag, a note, both, or the empty string for both.
AnnotationRecords ==
    {[id |-> id, tag |-> f[1], notes |-> f[2]] :
        id \in {1, 2},
        f \in {<<Some("favorite"), None>>, <<None, Some("note")>>,
               <<Some("infuse"), Some("memo")>>, <<Some(""), Some("")>>}}

OneLoadout == List(<<PvP>>)

\* Documents with up to MaxRecords tag and annotation records after one
\* loadout.
RecordDocuments ==
    {Document(OneLoadout,
              List([k \in 1..Len(p[1]) |-> Some(p[1][k])]),
              List([k \in 1..Len(p[2]) |-> Some(p[2][k])])) :
        p \in {q \in SeqsUpTo(TagRecords, MaxRecords)
                       \X SeqsUpTo(AnnotationRecords, MaxRecords) :
                  Len(q[1]) + Len(q[2]) <= MaxRecords}}

KeepOne == Some([id |-> 1, tag |-> "keep"])

\* Texts that are not JSON, that are not an object, whose fields are not
\* lists, and whose lists hold null after a record.
OddDocuments ==
    {[kind |-> "invalid"], [kind |-> "null"], [kind |-> "number"],
     Document(Absent, Absent, Absent),
     Document(NotAList, Absent, Absent),
     Document(OneLoadout, NotAList, Absent),
     Document(OneLoadout, List(<<KeepOne>>), NotAList),
     Document(OneLoadout, List(<<KeepOne, None>>), Absent),
     Document(OneLoadout, List(<<KeepOne>>), List(<<None>>))}

Documents == LoadoutDocuments \cup RecordDocuments \cup OddDocuments

\* The documents parsed after the first: a text that is not JSON, a document
\* that fails after its loadouts and tags, and a document that is parsed.
OtherDocuments ==
    {[kind |-> "invalid"],
     Document(OneLoadout, List(<<KeepOne>>), List(<<None>>)),
     Document(List(<<LoadoutExport("Raid", Some(<<[id |-> Some(2)]>>), Some(<<>>))>>),
              Absent, Absent)}

InitParser ==
    /\ inventory = <<>>
    /\ backup = None
    /\ protectionRules = DEFAULT_PROTECTION_RULES
    /\ config = [onlyVault |-> TRUE]
    /\ currentPlan = None
    /\ profiles = STAT_PROFILES
    /\ output = NoOutput
    /\ options = DEFAULT_OPTIONS
    /\ duplicateGroups = None
    /\ now = 0
    /\ fpDown = {}
    /\ document \in Documents
    /\ bungieClient = FALSE
    /\ cleanupPlanner = FALSE
    /\ requests = <<>>

NextParser == \E jsonContent \in {document} \cup OtherDocuments : ParseFromString(jsonContent)

SpecParser == InitParser /\ [][NextParser]_vars

(***************************************************************************)
(* The server on sequences of tool calls                                   *)
(***************************************************************************)
\* The largest maxItems of a call.
MaxMove == 2

\* What getFullInventory returns: three copies of a weapon; or an armor
\* item with poor stats, a locked weapon, its copy of a higher power level
\* and a copy outside the vault.
FetchedInventories ==
    {<<WithId([PlainWeapon EXCEPT !.powerLevel = 1810], 1),
       WithId([PlainWeapon EXCEPT !.powerLevel = 1805], 2),
       WithId(PlainWeapon, 3)>>,
     <<WithId(ArmorWith(Some(StatsPoor)), 1),
       WithId(Locked(PlainWeapon), 2),
       WithId([PlainWeapon EXCEPT !.powerLevel = 1810], 3),
       WithId([PlainWeapon EXCEPT !.location = Inventory], 4)>>}

\* The backups handed to destiny_load_dim_backup: a text that is not JSON, a
\* backup with a loadout of item 2 and a junk tag on item 3, and a backup with
\* a keep tag on item 1 and a note on item 3.
BackupDocuments ==
    {[kind |-> "invalid"],
     Document(List(<<LoadoutExport("Raid", Some(<<[id |-> Some(2)]>>), Some(<<>>))>>),
              List(<<Some([id |-> 3, tag |-> "junk"])>>), Absent),
     Document(Absent, List(<<KeepOne>>),
              List(<<Some([id |-> 3, tag |-> None, notes |-> Some("note")])>>))}

\* The arguments of destiny_generate_cleanup_plan: none, or locked items
\* are not protected.
NoArgs ==
    [protectLockedItems |-> None, protectMasterworked |-> None,
     protectExotics |-> None, highStatThreshold |-> None]
PlanArgs == {NoArgs, [NoArgs EXCEPT !.protectLockedItems = Some(FALSE)]}

\* maxItems is any number, or is not given.
MaxItemsArgs == {None} \cup {Some(n) : n \in -1..MaxMove}

InitServer ==
    /\ inventory = <<>>
    /\ backup = None
    /\ protectionRules = DEFAULT_PROTECTION_RULES
    /\ config = [onlyVault |-> TRUE]
    /\ currentPlan = None
    /\ profiles = STAT_PROFILES
    /\ output = NoOutput
    /\ options = DEFAULT_OPTIONS
    /\ duplicateGroups = None
    /\ now = 0
    /\ fpDown = {}
    /\ NoServer

NextServer ==
    \/ \E detected \in BOOLEAN : Configure(detected)
    \/ \E jsonContent \in BackupDocuments \cup {NoDocument} : LoadDimBackup(jsonContent)
    \/ \E fetched \in {None} \cup {Some(i) : i \in FetchedInventories} :
           GetInventory(fetched)
    \/ \E args \in PlanArgs : GenerateCleanupPlan(args)
    \/ GetJunkItems
    \/ \E maxItems \in MaxItemsArgs, succeeds \in SUBSET (1..MaxMove) :
           MoveJunkToCharacter(maxItems, succeeds)
    \/ \E itemInstanceId \in 1..3 : CheckBuildSafety(itemInstanceId)

SpecServer == InitServer /\ [][NextServer]_vars

(***************************************************************************)
(* The planner and the finder on one item list                             *)
(***************************************************************************)
InitFrame ==
    /\ inventory \in FinderInventories
    /\ backup \in CopyBackups
    /\ protectionRules \in {DEFAULT_PROTECTION_RULES, NoProtection}
    /\ config = [onlyVault |-> TRUE]
    /\ currentPlan = None
    /\ profiles = STAT_PROFILES
    /\ output = NoOutput
    /\ options = DEFAULT_OPTIONS
    /\ duplicateGroups = None
    /\ now = MaxCalls - 1
    /\ fpDown = {}
    /\ NoServer

NextFrame == GeneratePlan \/ FindDuplicates

SpecFrame == InitFrame /\ [][NextFrame]_vars

(***************************************************************************)
(* Properties of the plan                                                  *)
(***************************************************************************)
HasPlan == IsSome(currentPlan)
PlanRecs == Get(currentPlan).recommendations
Texts(parts) == [k \in 1..Len(parts) |-> parts[k].text]

\* The items generatePlan is to analyze.
IsCandidate(item) ==
    /\ item.itemType \in {"weapon", "armor"}
    /\ config.onlyVault => item.location = Vault

\* The positions of the loadouts of the loaded backup that list the item.
LoadoutsUsing(id) ==
    IF IsSome(backup)
    THEN {k \in 1..Len(Get(backup).loadouts) :
             \E j \in 1..Len(Get(backup).loadouts[k].itemIds) :
                 Get(backup).loadouts[k].itemIds[j] = id}
    ELSE {}

TagOf(id) ==
    IF IsSome(backup) /\ id \in DOMAIN Get(backup).tags
    THEN Get(backup).tags[id] ELSE "none"

\* C1: in every plan, a recommendation with a non-empty protectedBy list has
\* action KEEP.
C1_ProtectedIsKeep ==
    HasPlan =>
        \A k \in 1..Len(PlanRecs) :
            Len(PlanRecs[k].protectedBy) > 0 => PlanRecs[k].action = "KEEP"

\* A plan with an item protected by analyzeItem and one protected as high-stat
\* armor by analyzeArmor.
C1_Witness ==
    /\ HasPlan
    /\ \E k, j \in 1..Len(PlanRecs) :
           /\ Len(PlanRecs[k].protectedBy) > 0
           /\ PlanRecs[k].protectedBy[1].text = "High stats"
           /\ Len(PlanRecs[j].protectedBy) > 0
           /\ PlanRecs[j].protectedBy[1].text # "High stats"

\* C2: with a backup loaded and protectDIMLoadouts on, every candidate item
\* that a loadout lists has a recommendation, every recommendation for it is
\* KEEP, and its protectedBy names exactly the loadouts that list it, whatever
\* its tag.
C2_LoadoutItemsKept ==
    (HasPlan /\ IsSome(backup) /\ protectionRules.protectDIMLoadouts) =>
        \A i \in 1..Len(inventory) :
            (IsCandidate(inventory[i])
             /\ LoadoutsUsing(inventory[i].itemInstanceId) # {}) =>
                /\ \E k \in 1..Len(PlanRecs) : PlanRecs[k].item = inventory[i]
                /\ \A k \in 1..Len(PlanRecs) :
                       PlanRecs[k].item = inventory[i] =>
                           /\ PlanRecs[k].action = "KEEP"
                           /\ \E p \in 1..Len(PlanRecs[k].protectedBy) :
                                  /\ PlanRecs[k].protectedBy[p].text = "DIM Loadouts"
                                  /\ {PlanRecs[k].protectedBy[p].names[n] :
                                         n \in 1..Len(PlanRecs[k].protectedBy[p].names)}
                                     = {Get(backup).loadouts[l].name :
                                           l \in LoadoutsUsing(inventory[i].itemInstanceId)}

\* An item tagged junk, listed by two loadouts and protected by nothing else,
\* is KEEP.
C2_Witness ==
    /\ HasPlan
    /\ protectionRules.protectDIMLoadouts
    /\ \E k \in 1..Len(PlanRecs) :
           /\ TagOf(PlanRecs[k].item.itemInstanceId) = "junk"
           /\ Cardinality(LoadoutsUsing(PlanRecs[k].item.itemInstanceId)) = 2
           /\ PlanRecs[k].action = "KEEP"
           /\ Len(PlanRecs[k].protectedBy) = 1
           /\ Len(PlanRecs[k].protectedBy[1].names) = 2

\* The protection rules in their fixed order, and when each matches.
RuleOrder ==
    <<"DIM Loadouts", "Locked in game", "Masterworked", "Exotic item",
      "Custom protection", "DIM Favorite", "DIM Keep tag">>

RuleMatches(item, text) ==
    CASE text = "DIM Loadouts" ->
             protectionRules.protectDIMLoadouts /\ LoadoutsUsing(item.itemInstanceId) # {}
      [] text = "Locked in game" -> protectionRules.protectLockedItems /\ item.isLocked
      [] text = "Masterworked" -> protectionRules.protectMasterworked /\ item.isMasterworked
      [] text = "Exotic item" -> protectionRules.protectExotics /\ item.tier = Exotic
      [] text = "Custom protection" ->
             \E j \in 1..Len(protectionRules.customProtectedIds) :
                 protectionRules.customProtectedIds[j] = item.itemInstanceId
      [] text = "DIM Favorite" -> TagOf(item.itemInstanceId) = "favorite"
      [] text = "DIM Keep tag" -> TagOf(item.itemInstanceId) = "keep"

MatchingRules(item) ==
    LET Matches(text) == RuleMatches(item, text)
    IN SelectSeq(RuleOrder, Matches)

\* C3: a candidate that matches at least one protection rule is KEEP, its
\* protectedBy lists every matching rule in the fixed order, and it carries no
\* score and no scoring or duplicate reason; a favorite or keep tag is such a
\* rule whatever the toggles are.
C3_AllReasonsInOrder ==
    HasPlan =>
        \A k \in 1..Len(PlanRecs) :
            LET rec == PlanRecs[k]
            IN /\ MatchingRules(rec.item) # <<>> =>
                      /\ rec.action = "KEEP"
                      /\ Texts(rec.protectedBy) = MatchingRules(rec.item)
                      /\ rec.score = None
                      /\ Texts(rec.reason) = <<"Protected">> \o MatchingRules(rec.item)
               /\ TagOf(rec.item.itemInstanceId) \in {"favorite", "keep"} =>
                      rec.action = "KEEP"

\* An item that matches all six rules at once.
C3_Witness ==
    /\ HasPlan
    /\ \E k \in 1..Len(PlanRecs) :
           /\ Len(PlanRecs[k].protectedBy) = 6
           /\ PlanRecs[k].action = "KEEP"

\* The loaded backup without the tag of one item.
WithoutTag(b, id) ==
    Some([Get(b) EXCEPT !.tags = [x \in (DOMAIN Get(b).tags) \ {id} |-> Get(b).tags[x]]])

ActionsById(plan) ==
    {<<plan.recommendations[k].item.itemInstanceId, plan.recommendations[k].action>> :
        k \in 1..Len(plan.recommendations)}

\* C4: the plan gives every item the action that it gets from the same
\* inventory, rules and backup with the junk tag of one item removed.
C4_JunkTagKeepsActions ==
    (HasPlan /\ IsSome(backup)) =>
        \A id \in DOMAIN Get(backup).tags :
            Get(backup).tags[id] = "junk" =>
                ActionsById(Get(currentPlan))
                    = ActionsById(generatePlan(inventory, WithoutTag(backup, id),
                                               protectionRules, config.onlyVault))

\* An unprotected item tagged junk whose reason starts with the tag's note,
\* with action KEEP, while another item of the plan is JUNK.
C4_Witness ==
    /\ HasPlan
    /\ \E k, j \in 1..Len(PlanRecs) :
           /\ TagOf(PlanRecs[k].item.itemInstanceId) = "junk"
           /\ PlanRecs[k].reason[1].text = "Tagged as junk in DIM"
           /\ PlanRecs[k].action = "KEEP"
           /\ PlanRecs[j].action = "JUNK"

(***************************************************************************)
(* Properties of the scorer                                                *)
(***************************************************************************)
Scored == output.op = "scoreArmor" /\ IsSome(output.result)
ScoredStats == Get(inventory[output.item1].stats)
ScoreOut == Get(output.result)

\* C5 as stated: the scenario's stats score 80, with one weak stat.
C5_ScenarioA_Stated ==
    (Scored /\ ScoredStats = StatsExcellent) =>
        /\ ScoreOut.totalScore = 80
        /\ BaseScore3(ScoredStats.total) = 3 * 40
        /\ SpikeBonus(ScoreOut.analysis) = 30
        /\ DistributionBonus(ScoreOut.analysis) = 0
        /\ WeakPenalty(ScoreOut.analysis) = 5
        /\ TopStatBonus(ScoreOut.analysis) = 15

\* C5, amended: the stats Mobility 2, Resilience 20, Recovery 26, Discipline 15,
\* Intellect 6, Strength 8 (total 77) score 75: base 40, spike bonus 30,
\* distribution bonus 0, weak-stat penalty 10 for the two weak stats Mobility
\* and Intellect, top-stat bonus 15.
C5_ScenarioA ==
    (Scored /\ ScoredStats = StatsExcellent) =>
        /\ ScoredStats.total = 77
        /\ ScoreOut.totalScore = 75
        /\ BaseScore3(ScoredStats.total) = 3 * 40
        /\ SpikeBonus(ScoreOut.analysis) = 30
        /\ DistributionBonus(ScoreOut.analysis) = 0
        /\ WeakPenalty(ScoreOut.analysis) = 10
        /\ Texts([k \in 1..Len(ScoreOut.analysis.weakStats) |->
                    [text |-> ScoreOut.analysis.weakStats[k].stat]])
               = <<"Mobility", "Intellect">>
        /\ TopStatBonus(ScoreOut.analysis) = 15

C5_Witness == Scored /\ ScoredStats = StatsExcellent

\* C6: the total score of a scored item is between 0 and 100.
C6_ScoreInRange == Scored => ScoreOut.totalScore \in 0..100

\* The item with six zero stats is scored 0, its raw score being negative.
C6_Witness ==
    /\ Scored
    /\ ScoredStats = ExtractArmorStats(0, 0, 0, 0, 0, 0)
    /\ ScoreOut.totalScore = 0
    /\ RawScore3(ScoredStats, ScoreOut.analysis) < 0

\* The score as the claim computes it, in thirds of a point until rounded.
ClaimValues(stats) ==
    <<stats.mobility, stats.resilience, stats.recovery, stats.discipline,
      stats.intellect, stats.strength>>

ClaimScore(stats) ==
    LET v == ClaimValues(stats)
        vals == {v[k] : k \in 1..6}
        lowest == CHOOSE x \in vals : \A y \in vals : x <= y
        highest == CHOOSE x \in vals : \A y \in vals : x >= y
        pairSums == {v[p[1]] + v[p[2]] : p \in {q \in (1..6) \X (1..6) : q[1] # q[2]}}
        twoHighest == CHOOSE x \in pairSums : \A y \in pairSums : x >= y
        base3 == IF stats.total >= 68 THEN 120
                 ELSE IF stats.total >= 65 THEN 90
                 ELSE IF stats.total >= 60 THEN 60
                 ELSE stats.total
        spike == IF \E k \in 1..6 : v[k] >= 26 THEN 30
                 ELSE IF \E k \in 1..6 : v[k] >= 20 THEN 20
                 ELSE 0
        distribution == IF lowest >= 6 /\ highest - lowest <= 15 THEN 15 ELSE 0
        weakCount == Cardinality({k \in 1..6 : v[k] <= 6})
        weak == IF 5 * weakCount > 15 THEN 15 ELSE 5 * weakCount
        top == IF twoHighest >= 45 THEN 15
               ELSE IF twoHighest >= 40 THEN 10
               ELSE IF twoHighest >= 35 THEN 5
               ELSE 0
        raw3 == base3 + 3 * (spike + distribution - weak + top)
        nearest == CHOOSE n \in -100..200 : 2 * Abs(3 * n - raw3) <= 3
    IN IF nearest < 0 THEN 0 ELSE IF nearest > 100 THEN 100 ELSE nearest

C8_BestProfileIsFirstMaximum ==
    Scored =>
        \E k \in 1..Len(profiles) :
            /\ profiles[k].id = ScoreOut.bestProfile
            /\ ScoreOut.profileScores[k].id = ScoreOut.bestProfile
            /\ ScoreOut.profileScores[k].score = ScoreOut.bestProfileScore
            /\ \A j \in 1..Len(profiles) :
                   ScoreOut.profileScores[j].score <= ScoreOut.bestProfileScore
            /\ \A j \in 1..(k - 1) :
                   ScoreOut.profileScores[j].score < ScoreOut.bestProfileScore

Compared == output.op = "compareArmor"
Item1 == inventory[output.item1]
Item2 == inventory[output.item2]
Score1 == scoreArmor(Item1, profiles)
Score2 == scoreArmor(Item2, profiles)

\* C9: the winner of compareArmor by the cases of the claim.
C9_CompareDecision ==
    Compared =>
        output.result.winner =
            IF ~IsScorable(Item1) /\ ~IsScorable(Item2) THEN None
            ELSE IF ~IsScorable(Item1) THEN Some(Item2)
            ELSE IF ~IsScorable(Item2) THEN Some(Item1)
            ELSE IF Get(Score1).totalScore - Get(Score2).totalScore >= 5 THEN Some(Item1)
            ELSE IF Get(Score2).totalScore - Get(Score1).totalScore >= 5 THEN Some(Item2)
            ELSE IF Get(Score1).bestProfileScore - Get(Score2).bestProfileScore > 20
                 THEN Some(Item1)
            ELSE IF Get(Score2).bestProfileScore - Get(Score1).bestProfileScore > 20
                 THEN Some(Item2)
            ELSE None

\* Two scorable items less than 5 points apart whose best-profile scores differ
\* by exactly 2: a tie.
C9_Witness ==
    /\ Compared
    /\ IsScorable(Item1) /\ IsScorable(Item2)
    /\ Abs(Get(Score1).totalScore - Get(Score2).totalScore) < 5
    /\ Get(Score1).bestProfileScore = Get(Score2).bestProfileScore + 20
    /\ output.result.winner = None

ExchangedKind(kind) ==
    IF kind = "First item has no stats" THEN "Second item has no stats"
    ELSE IF kind = "Second item has no stats" THEN "First item has no stats"
    ELSE kind

\* C10: compareArmor with the items exchanged names the same winner, returns
\* the two scores exchanged and gives a reason of the same kind.
C10_CompareAntiSymmetric ==
    Compared =>
        LET forth == output.result
            back == compareArmor(Item2, Item1, profiles)
        IN /\ back.winner = forth.winner
           /\ back.score1 = forth.score2
           /\ back.score2 = forth.score1
           /\ back.reason.kind = ExchangedKind(forth.reason.kind)

\* The second item wins on the overall score.
C10_Witness ==
    /\ Compared
    /\ output.result.winner = Some(Item2)
    /\ output.result.reason.kind = "Higher overall score"

(***************************************************************************)
(* Properties of the armor and weapon analysis                             *)
(***************************************************************************)
\* Armor that no protection rule matches and the high-stat protection does
\* not cover.
ReachesTiers(item) ==
    /\ item.itemType = "armor"
    /\ MatchingRules(item) = <<>>
    /\ ~(/\ IsSome(item.stats)
         /\ protectionRules.protectHighStatArmor
         /\ Get(item.stats).total >= protectionRules.highStatThreshold)

TotalScoreOf(item) ==
    calculateTotalScore(Get(item.stats), analyzeStats(Get(item.stats)))

\* Another candidate armor item of the same definition scores more than 10
\* points higher.
BetterCopyExists(item) ==
    \E i \in 1..Len(inventory) :
        /\ IsCandidate(inventory[i])
        /\ inventory[i].itemType = "armor"
        /\ inventory[i].itemHash = item.itemHash
        /\ inventory[i].itemInstanceId # item.itemInstanceId
        /\ IsSome(inventory[i].stats)
        /\ TotalScoreOf(inventory[i]) > TotalScoreOf(item) + 10

\* C11: armor that no protection covers gets its action from its total score:
\* KEEP from 75, from 50 to 74 KEEP unless another candidate armor item of the
\* same definition scores more than 10 points higher (then REVIEW), from 30 to
\* 49 REVIEW with the reason 'Below average armor score: N/100', below 30 JUNK;
\* armor without stats is REVIEW.
C11_ArmorTiers ==
    HasPlan =>
        \A k \in 1..Len(PlanRecs) :
            LET rec == PlanRecs[k]
            IN ReachesTiers(rec.item) =>
                   IF ~IsSome(rec.item.stats) THEN rec.action = "REVIEW"
                   ELSE /\ rec.score = Some(TotalScoreOf(rec.item))
                        /\ Get(rec.score) >= 75 => rec.action = "KEEP"
                        /\ Get(rec.score) \in 50..74 =>
                               rec.action = IF BetterCopyExists(rec.item)
                                            THEN "REVIEW" ELSE "KEEP"
                        /\ Get(rec.score) \in 30..49 =>
                               /\ rec.action = "REVIEW"
                               /\ rec.reason[Len(rec.reason)]
                                      = Part("Below average armor score", <<>>,
                                             Get(rec.score))
                        /\ Get(rec.score) < 30 => rec.action = "JUNK"

\* Armor scored 50 is REVIEW beside a copy scored 75, which is KEEP by its
\* score alone.
C11_Witness ==
    /\ HasPlan
    /\ \E k, j \in 1..Len(PlanRecs) :
           /\ ReachesTiers(PlanRecs[k].item)
           /\ PlanRecs[k].score = Some(50)
           /\ PlanRecs[k].action = "REVIEW"
           /\ ReachesTiers(PlanRecs[j].item)
           /\ PlanRecs[j].score = Some(75)
           /\ PlanRecs[j].action = "KEEP"

\* Candidate armor with stats whose total reaches the threshold.
IsHighStatArmor(item) ==
    /\ item.itemType = "armor"
    /\ IsSome(item.stats)
    /\ Get(item.stats).total >= protectionRules.highStatThreshold

\* C12 as stated: with protectHighStatArmor on, every candidate armor item with
\* stats whose total reaches the threshold is KEEP with a high-stat protection
\* reason.
C12_HighStatReason_Stated ==
    (HasPlan /\ protectionRules.protectHighStatArmor) =>
        \A k \in 1..Len(PlanRecs) :
            IsHighStatArmor(PlanRecs[k].item) =>
                /\ PlanRecs[k].action = "KEEP"
                /\ \E p \in 1..Len(PlanRecs[k].protectedBy) :
                       PlanRecs[k].protectedBy[p].text = "High stats"

\* C12, amended: with protectHighStatArmor on, every candidate armor item with
\* stats whose total reaches the threshold is KEEP and protected, whatever its
\* score and its duplicates; it carries the high-stat reason exactly when no
\* other protection rule matches it, and the reasons of the matching rules
\* otherwise.
C12_HighStatKept ==
    (HasPlan /\ protectionRules.protectHighStatArmor) =>
        \A k \in 1..Len(PlanRecs) :
            LET rec == PlanRecs[k]
            IN IsHighStatArmor(rec.item) =>
                   /\ rec.action = "KEEP"
                   /\ IF MatchingRules(rec.item) = <<>>
                      THEN /\ rec.protectedBy =
                                  <<Part("High stats", <<>>, Get(rec.item.stats).total)>>
                           /\ rec.reason =
                                  <<Part("High stat armor", <<>>, Get(rec.item.stats).total)>>
                      ELSE Texts(rec.protectedBy) = MatchingRules(rec.item)

\* Armor with the total of the threshold and a score of 45 is KEEP as high-stat
\* armor beside a copy that scores 75.
C12_Witness ==
    /\ HasPlan
    /\ protectionRules.protectHighStatArmor
    /\ \E k, j \in 1..Len(PlanRecs) :
           /\ IsSome(PlanRecs[k].item.stats)
           /\ Get(PlanRecs[k].item.stats).total = protectionRules.highStatThreshold
           /\ PlanRecs[k].score = Some(45)
           /\ PlanRecs[k].action = "KEEP"
           /\ Texts(PlanRecs[k].protectedBy) = <<"High stats">>
           /\ PlanRecs[j].item.itemHash = PlanRecs[k].item.itemHash
           /\ PlanRecs[j].item.stats = Some(StatsExcellent)

\* The positions of the candidates with the item's definition, the item
\* included.
CopiesOf(item) ==
    {i \in 1..Len(inventory) :
        IsCandidate(inventory[i]) /\ inventory[i].itemHash = item.itemHash}

\* a is ranked strictly above b: masterworked first, then locked, then the
\* higher power level.
RanksAbove(a, b) ==
    IF a.isMasterworked # b.isMasterworked THEN a.isMasterworked
    ELSE IF a.isLocked # b.isLocked THEN a.isLocked
    ELSE a.powerLevel > b.powerLevel

IsTopCopy(item) == \A i \in CopiesOf(item) : ~RanksAbove(inventory[i], item)

IsUnprotectedWeapon(item) == item.itemType = "weapon" /\ MatchingRules(item) = <<>>

\* C13: an unprotected weapon is KEEP ('Only copy of this weapon') when no
\* other candidate has its definition; otherwise one copy at the top of the
\* ranking by masterwork, lock and power level is the best copy, an unprotected
\* weapon is KEEP when it is that copy and JUNK ('Not the best copy') when it
\* is any other copy, and never REVIEW.
C13_SingleBestCopy ==
    HasPlan =>
        \A k \in 1..Len(PlanRecs) :
            LET rec == PlanRecs[k]
            IN IsUnprotectedWeapon(rec.item) =>
                   IF Cardinality(CopiesOf(rec.item)) = 1
                   THEN /\ rec.action = "KEEP"
                        /\ rec.reason[Len(rec.reason)].text = "Only copy of this weapon"
                   ELSE \E t \in CopiesOf(rec.item) :
                            /\ IsTopCopy(inventory[t])
                            /\ \A j \in 1..Len(PlanRecs) :
                                   (/\ IsUnprotectedWeapon(PlanRecs[j].item)
                                    /\ PlanRecs[j].item.itemHash = rec.item.itemHash) =>
                                       IF PlanRecs[j].item = inventory[t]
                                       THEN PlanRecs[j].action = "KEEP"
                                       ELSE /\ PlanRecs[j].action = "JUNK"
                                            /\ PlanRecs[j].reason[Len(PlanRecs[j].reason)].text
                                                   = "Not the best copy"

(***************************************************************************)
(* Properties of the whole plan                                            *)
(***************************************************************************)
ActionRank(action) ==
    CASE action = "JUNK" -> 0
      [] action = "REVIEW" -> 1
      [] action = "KEEP" -> 2

PositionOf(item) == CHOOSE i \in 1..Len(inventory) : inventory[i] = item

\* C14: the recommendations are ordered JUNK, then REVIEW, then KEEP, and
\* recommendations with the same action are in the order of their items in the
\* input.
C14_OrderedAndStable ==
    HasPlan =>
        \A k, j \in 1..Len(PlanRecs) :
            k < j =>
                /\ ActionRank(PlanRecs[k].action) <= ActionRank(PlanRecs[j].action)
                /\ PlanRecs[k].action = PlanRecs[j].action =>
                       PositionOf(PlanRecs[k].item) < PositionOf(PlanRecs[j].item)

\* The third item is JUNK and comes first; the first two share an action and
\* keep their order.
C14_Witness ==
    /\ HasPlan
    /\ Len(PlanRecs) = 3
    /\ PlanRecs[1].action = "JUNK"
    /\ PositionOf(PlanRecs[1].item) = 3
    /\ PlanRecs[2].action = PlanRecs[3].action
    /\ PositionOf(PlanRecs[2].item) = 1

PlanSummary == Get(currentPlan).summary

\* C15: the plan has exactly one recommendation for each candidate (weapon or
\* armor, in the vault unless onlyVault is off) and none for anything else;
\* totalAnalyzed is the number of candidates and equals keep + review + junk,
\* each of which counts the recommendations with that action; protectedItems
\* counts the recommendations with a non-empty protectedBy and is at most keep.
C15_OnePerCandidate ==
    HasPlan =>
        /\ \A i \in 1..Len(inventory) :
               IsCandidate(inventory[i]) =>
                   Cardinality({k \in 1..Len(PlanRecs) :
                                   PlanRecs[k].item = inventory[i]}) = 1
        /\ \A k \in 1..Len(PlanRecs) :
               \E i \in 1..Len(inventory) :
                   IsCandidate(inventory[i]) /\ PlanRecs[k].item = inventory[i]
        /\ PlanSummary.totalAnalyzed
               = Cardinality({i \in 1..Len(inventory) : IsCandidate(inventory[i])})
        /\ PlanSummary.totalAnalyzed
               = PlanSummary.keep + PlanSummary.review + PlanSummary.junk
        /\ PlanSummary.keep
               = Cardinality({k \in 1..Len(PlanRecs) : PlanRecs[k].action = "KEEP"})
        /\ PlanSummary.review
               = Cardinality({k \in 1..Len(PlanRecs) : PlanRecs[k].action = "REVIEW"})
        /\ PlanSummary.junk
               = Cardinality({k \in 1..Len(PlanRecs) : PlanRecs[k].action = "JUNK"})
        /\ PlanSummary.protectedItems
               = Cardinality({k \in 1..Len(PlanRecs) : PlanRecs[k].protectedBy # <<>>})
        /\ PlanSummary.protectedItems <= PlanSummary.keep

\* With onlyVault on, an item outside the vault and an item of another kind
\* are left out of a plan that has a protected and a junk recommendation.
C15_Witness ==
    /\ HasPlan
    /\ config.onlyVault
    /\ \E i \in 1..Len(inventory) : inventory[i].location # Vault
    /\ Len(PlanRecs) < Len(inventory)
    /\ PlanSummary.protectedItems > 0
    /\ PlanSummary.junk > 0

HasGroups == IsSome(duplicateGroups)
Groups == Get(duplicateGroups)
SetOf(seq) == {seq[k] : k \in 1..Len(seq)}

\* The positions of the eligible items with one definition.
EligibleWith(hash) ==
    {i \in 1..Len(inventory) :
        /\ inventory[i].itemHash = hash
        /\ \/ inventory[i].itemType = "weapon" /\ options.includeWeapons
           \/ inventory[i].itemType = "armor" /\ options.includeArmor}

\* C17: findDuplicates returns one group for each definition that at least
\* minDuplicates eligible items have and no other group; weapons are eligible
\* when includeWeapons is on, armor when includeArmor is on, other items
\* never; a group holds all and only the eligible items of its definition.
C17_GroupsOfEligible ==
    HasGroups =>
        /\ \A i \in 1..Len(inventory) :
               Cardinality({g \in 1..Len(Groups) :
                               Groups[g].itemHash = inventory[i].itemHash})
                   = IF Cardinality(EligibleWith(inventory[i].itemHash))
                            >= options.minDuplicates
                        /\ EligibleWith(inventory[i].itemHash) # {}
                     THEN 1 ELSE 0
        /\ \A g \in 1..Len(Groups) :
               /\ \E i \in 1..Len(inventory) : inventory[i].itemHash = Groups[g].itemHash
               /\ SetOf(Groups[g].items)
                      = {inventory[i] : i \in EligibleWith(Groups[g].itemHash)}
               /\ Len(Groups[g].items) = Cardinality(EligibleWith(Groups[g].itemHash))

\* A group of two weapons that leaves out an item of another kind with their
\* definition.
C17_Witness ==
    /\ HasGroups
    /\ \E g \in 1..Len(Groups) :
           /\ Len(Groups[g].items) = 2
           /\ \E i \in 1..Len(inventory) :
                  /\ inventory[i].itemType = "other"
                  /\ inventory[i].itemHash = Groups[g].itemHash

\* C18: in every group the lists keep, discard and review are pairwise
\* disjoint, name no item twice, and together hold exactly the group's items.
C18_Partition ==
    HasGroups =>
        \A g \in 1..Len(Groups) :
            LET rec == Groups[g].recommendation
            IN /\ SetOf(rec.keep) \cap SetOf(rec.discard) = {}
               /\ SetOf(rec.keep) \cap SetOf(rec.review) = {}
               /\ SetOf(rec.discard) \cap SetOf(rec.review) = {}
               /\ SetOf(rec.keep) \cup SetOf(rec.discard) \cup SetOf(rec.review)
                      = SetOf(Groups[g].items)
               /\ Len(rec.keep) + Len(rec.discard) + Len(rec.review)
                      = Len(Groups[g].items)

\* An armor group whose locked member was moved from discard to review, beside
\* a kept and a discarded member.
C18_Witness ==
    /\ HasGroups
    /\ \E g \in 1..Len(Groups) :
           /\ Groups[g].items[1].itemType = "armor"
           /\ Len(Groups[g].recommendation.keep) = 1
           /\ Len(Groups[g].recommendation.discard) = 1
           /\ \E k \in 1..Len(Groups[g].recommendation.review) :
                  /\ Groups[g].recommendation.review[k].isLocked
                  /\ IsSome(Groups[g].recommendation.review[k].stats)

MemberScores(items) ==
    [j \in 1..Len(items) |->
        IF IsSome(items[j].stats) /\ items[j].itemType = "armor"
        THEN TotalScoreOf(items[j]) ELSE -1]

\* The scored members that come before member k in the order by descending
\* total score, members with equal scores in the order of the group.
ScoredBefore(scores, k) ==
    {j \in DOMAIN scores :
        /\ scores[j] >= 0
        /\ scores[j] > scores[k] \/ (scores[j] = scores[k] /\ j < k)}

BestScoreOf(scores) ==
    CHOOSE x \in SetOf(scores) : \A y \in SetOf(scores) : x >= y

\* The list the claim puts member k of an armor group in.
ClaimedList(items, scores, k) ==
    IF scores[k] < 0 THEN "review"
    ELSE IF Cardinality(ScoredBefore(scores, k)) < options.keepCount THEN "keep"
    ELSE IF BestScoreOf(scores) - scores[k] > 15 \/ scores[k] < 60
         THEN IF items[k].isLocked \/ items[k].isMasterworked
              THEN "review" ELSE "discard"
    ELSE "review"

ListNamed(recommendation, list) ==
    CASE list = "keep" -> recommendation.keep
      [] list = "discard" -> recommendation.discard
      [] list = "review" -> recommendation.review

\* C20: in an armor group the first keepCount scored members by descending
\* total score are keep, in that order; a remaining scored member is discard
\* when the best score of the group exceeds its own by more than 15, otherwise
\* review when its score is at least 60, otherwise discard, a discard being
\* moved to review when the member is locked or masterworked; a member without
\* a score is review.
C20_ArmorGroupDecisions ==
    HasGroups =>
        \A g \in 1..Len(Groups) :
            Groups[g].items[1].itemType = "armor" =>
                LET items == Groups[g].items
                    scores == MemberScores(items)
                    keep == Groups[g].recommendation.keep
                IN /\ \A k \in 1..Len(items) :
                          items[k] \in SetOf(ListNamed(Groups[g].recommendation,
                                                       ClaimedList(items, scores, k)))
                   /\ \A k, j \in 1..Len(keep) :
                          k < j => TotalScoreOf(keep[k]) >= TotalScoreOf(keep[j])

\* The member scored 75 is kept, the member scored 60, exactly 15 below it, is
\* in review, and a third member is discarded.
C20_Witness ==
    /\ HasGroups
    /\ options.keepCount = 1
    /\ \E g \in 1..Len(Groups) :
           /\ Len(Groups[g].recommendation.keep) = 1
           /\ Groups[g].recommendation.keep[1].stats = Some(StatsExcellent)
           /\ TotalScoreOf(Groups[g].recommendation.keep[1]) = 75
           /\ Len(Groups[g].recommendation.review) = 1
           /\ Groups[g].recommendation.review[1].stats = Some(StatsGood)
           /\ TotalScoreOf(Groups[g].recommendation.review[1]) = 60
           /\ Len(Groups[g].recommendation.discard) = 1

(***************************************************************************)
(* The ranking of the copies of a weapon                                   *)
(***************************************************************************)
\* The groups that generateRecommendation hands to recommendWeapons.
WeaponGroups == {g \in 1..Len(Groups) : Groups[g].items[1].itemType # "armor"}

\* C21: the members of a weapon group are ranked masterworked first, then
\* locked, then by the higher power level; the first keepCount of the ranking
\* are the keep list, in the ranking's order, and no member left out of keep
\* ranks strictly above a kept member. Of three copies at 1810, 1805 and 1800,
\* none locked or masterworked, with keepCount 1 the copy at 1810 is kept and
\* the other two are discarded.
C21_WeaponRanking ==
    HasGroups =>
        \A g \in WeaponGroups :
            LET rec == Groups[g].recommendation
                rest == rec.discard \o rec.review
            IN /\ Len(rec.keep) = Min(options.keepCount, Len(Groups[g].items))
               /\ \A k \in 1..(Len(rec.keep) - 1) :
                      ~RanksAbove(rec.keep[k + 1], rec.keep[k])
               /\ \A j \in 1..Len(rest) : \A k \in 1..Len(rec.keep) :
                      ~RanksAbove(rest[j], rec.keep[k])
               /\ ( /\ options.keepCount = 1
                    /\ {<<i.powerLevel, i.isLocked, i.isMasterworked>> :
                           i \in SetOf(Groups[g].items)}
                         = {<<p, FALSE, FALSE>> : p \in {1800, 1805, 1810}}
                    /\ Len(Groups[g].items) = 3 )
                  => /\ Len(rec.keep) = 1 /\ rec.keep[1].powerLevel = 1810
                     /\ {i.powerLevel : i \in SetOf(rec.discard)} = {1800, 1805}
                     /\ rec.review = <<>>

\* The copy at 1810 comes last in the inventory and is the one kept; the
\* copies at 1800 and 1805 are discarded.
C21_Witness ==
    /\ HasGroups
    /\ options.keepCount = 1
    /\ Len(inventory) = 3
    /\ inventory[3].powerLevel = 1810
    /\ \E g \in WeaponGroups :
           /\ Groups[g].recommendation.keep = <<inventory[3]>>
           /\ {i.powerLevel : i \in SetOf(Groups[g].recommendation.discard)}
                  = {1800, 1805}

(***************************************************************************)
(* Properties of the parser                                                *)
(***************************************************************************)
Parsed == output.op = "parseFromString"
ParsedOk == Parsed /\ output.result.success

\* The document has no reading as a backup: it is not JSON, it is null, one
\* of its three fields is there and is not a list, a loadout lacks one of its
\* two lists, or a record is null.
CannotBeParsed(doc) ==
    \/ doc.kind \in {"invalid", "null"}
    \/ /\ doc.kind = "object"
       /\ \/ \E name \in {"loadouts", "tags", "annotations"} : doc[name].kind = "number"
          \/ \E k \in 1..Len(doc.loadouts.list) :
                 doc.loadouts.list[k].equipped = None
                 \/ doc.loadouts.list[k].unequipped = None
          \/ \E k \in 1..Len(doc.tags.list) : doc.tags.list[k] = None
          \/ \E k \in 1..Len(doc.annotations.list) : doc.annotations.list[k] = None

\* C22: parseFromString on a document that cannot be parsed returns a failure
\* result with an error message, and a failed parseFromString leaves the
\* parser as it was: the loaded flag, the loadouts, the tags and the notes
\* after the call are those before it.
C22_FailedParseChangesNothing ==
    [][LET doc == output'.item1
           result == output'.result
       IN /\ output'.op = "parseFromString"
          /\ CannotBeParsed(doc) => ~result.success
          /\ ~result.success =>
                 /\ result.data = None
                 /\ result.error[1] = "Failed to parse DIM backup: "
                 /\ result.error[2] # ""
                 /\ loaded(backup') = loaded(backup)
                 /\ backup' = backup]_vars

\* A document whose loadout and tag were read before its annotations failed
\* has been refused while another backup, without tags, is loaded.
C22_Witness ==
    /\ Parsed
    /\ ~output.result.success
    /\ output.item1.kind = "object"
    /\ Len(output.item1.loadouts.list) = 1
    /\ Len(output.item1.tags.list) = 1
    /\ loaded(backup)
    /\ Get(backup).tags = <<>>
    /\ Len(Get(backup).loadouts) = 1
    /\ Get(backup).loadouts[1].name = "Raid"

\* The records of one list of the parsed document.
RecordsOf(doc, name) ==
    IF doc.kind = "object" /\ doc[name].kind = "list"
    THEN [k \in 1..Len(doc[name].list) |-> Get(doc[name].list[k])]
    ELSE <<>>

\* The positions of the records that give the identifier a value.
Giving(records, field, id) ==
    {k \in 1..Len(records) :
        /\ records[k].id = id
        /\ records[k][field] # None
        /\ records[k][field] # Some("")}

Last(S) == CHOOSE k \in S : \A j \in S : j <= k

\* The tag the document's records leave the identifier with: that of the last
\* annotation record that gives it a tag, or else of its last legacy record.
MergedTag(doc, id) ==
    LET legacy == RecordsOf(doc, "tags")
        annotations == RecordsOf(doc, "annotations")
        fromLegacy == {k \in 1..Len(legacy) : legacy[k].id = id}
        fromAnnotations == Giving(annotations, "tag", id)
    IN IF fromAnnotations # {} THEN annotations[Last(fromAnnotations)].tag
       ELSE IF fromLegacy # {} THEN Some(legacy[Last(fromLegacy)].tag)
       ELSE None

MergedNote(doc, id) ==
    LET annotations == RecordsOf(doc, "annotations")
        fromAnnotations == Giving(annotations, "notes", id)
    IN IF fromAnnotations # {} THEN annotations[Last(fromAnnotations)].notes
       ELSE None

RecordIds(doc) ==
    {RecordsOf(doc, "tags")[k].id : k \in 1..Len(RecordsOf(doc, "tags"))}
    \cup {RecordsOf(doc, "annotations")[k].id :
             k \in 1..Len(RecordsOf(doc, "annotations"))}

\* C23: in the parsed backup an identifier has the tag of the last record
\* that gives it one, the annotation records counting as later than the
\* legacy tag records, and the note of the last annotation record that gives
\* it one; an identifier that no record gives a tag (a note) has none, so an
\* identifier has at most one tag and one note.
C23_LaterRecordsWin ==
    ParsedOk =>
        /\ \A id \in RecordIds(output.item1) \cup {0, 1, 2} :
               /\ getTag(output.result.data, id) = MergedTag(output.item1, id)
               /\ getNote(output.result.data, id) = MergedNote(output.item1, id)
        /\ DOMAIN Get(output.result.data).tags \subseteq RecordIds(output.item1)
        /\ DOMAIN Get(output.result.data).notes \subseteq RecordIds(output.item1)

\* The tag of an annotation record has replaced the legacy tag of its
\* identifier.
C23_Witness ==
    /\ ParsedOk
    /\ Len(RecordsOf(output.item1, "tags")) = 1
    /\ Len(RecordsOf(output.item1, "annotations")) = 1
    /\ RecordsOf(output.item1, "tags")[1].id = 1
    /\ RecordsOf(output.item1, "tags")[1].tag = "keep"
    /\ RecordsOf(output.item1, "annotations")[1].id = 1
    /\ getTag(backup, 1) = Some("favorite")

\* The identifiers that the entries of a list carry.
CarriedIds(entries) ==
    LET Carries(entry) == entry.id # None /\ entry.id # Some(0)
        carrying == SelectSeq(entries, Carries)
    IN [k \in 1..Len(carrying) |-> Get(carrying[k].id)]

\* The loadouts of the document with the identifiers they carry, those of
\* the equipped entries before those of the unequipped ones.
LoadoutsWithIds(doc) ==
    LET exports == IF doc.kind = "object" THEN doc.loadouts.list ELSE <<>>
    IN [k \in 1..Len(exports) |->
           [name |-> exports[k].name,
            itemIds |-> CarriedIds(Get(exports[k].equipped))
                        \o CarriedIds(Get(exports[k].unequipped))]]

\* C24: the parsed backup holds, in the document's order, the loadouts with
\* at least one entry that carries an instance identifier, each with exactly
\* the identifiers its entries carry, the equipped ones first; a loadout whose
\* entries carry none is not in the backup, and no lookup of an item returns
\* it.
C24_LoadoutsWithIdsKept ==
    ParsedOk =>
        LET all == LoadoutsWithIds(output.item1)
            Carrying(l) == l.itemIds # <<>>
            manifest == Get(output.result.data).loadouts
        IN /\ manifest = SelectSeq(all, Carrying)
           /\ \A k \in 1..Len(all) :
                  all[k].itemIds = <<>> =>
                      \A id \in {0, 1, 2} :
                          \A j \in 1..Len(getLoadoutsForItem(output.result.data, id)) :
                              getLoadoutsForItem(output.result.data, id)[j].name
                                  # all[k].name

\* Of two loadouts one is kept, with the identifier of its equipped entry
\* before that of its unequipped entry, and the one without identifiers is
\* dropped.
C24_Witness ==
    /\ ParsedOk
    /\ Len(LoadoutsWithIds(output.item1)) = 2
    /\ LoadoutsWithIds(output.item1)[2].itemIds = <<>>
    /\ Len(Get(backup).loadouts) = 1
    /\ Get(backup).loadouts[1].itemIds = <<1, 2>>
    /\ Get(output.item1.loadouts.list[1].equipped) = <<[id |-> Some(1)]>>

(***************************************************************************)
(* Properties of the tool calls                                            *)
(***************************************************************************)
AskedForJunk ==
    output.op \in {"destiny_get_junk_items", "destiny_move_junk_to_character"}

\* C25: a call of destiny_get_junk_items or destiny_move_junk_to_character
\* made while no plan has been generated returns an error result, not a list,
\* and issues no transfer request.
C25_NoPlanIsAnError ==
    (AskedForJunk /\ ~HasPlan) => (output.isError /\ requests = <<>>)

\* The junk items were to be moved with the API configured and an inventory
\* fetched, and no plan had been made.
C25_Witness ==
    /\ output.op = "destiny_move_junk_to_character"
    /\ ~HasPlan
    /\ bungieClient
    /\ Len(inventory) > 0
    /\ output.isError
    /\ requests = <<>>

\* The loaded backup protects the item: a loadout lists it or its tag is
\* favorite or keep.
ProtectedNow(id) == LoadoutsUsing(id) # {} \/ TagOf(id) \in {"favorite", "keep"}

\* C26: every item that destiny_get_junk_items reports and every item that
\* destiny_move_junk_to_character transfers is listed by no loadout of the
\* backup loaded at the time of the call and has neither the tag favorite
\* nor the tag keep in it.
C26_JunkUnprotectedAtCall ==
    /\ (output.op = "destiny_get_junk_items" /\ ~output.isError) =>
           \A k \in 1..Len(output.result.items) :
               ~ProtectedNow(output.result.items[k].instanceId)
    /\ \A k \in 1..Len(requests) : ~ProtectedNow(requests[k].itemInstanceId)

\* C28: when the plan is the plan of the cached inventory and the loaded
\* backup under the default rules, destiny_check_build_safety reports
\* safeToDismantle for every item the plan marks JUNK.
C28_JunkIsSafeToDismantle ==
    ( /\ output.op = "destiny_check_build_safety"
      /\ ~output.isError
      /\ HasPlan
      /\ protectionRules = DEFAULT_PROTECTION_RULES
      /\ PlanRecs = generatePlan(inventory, backup, DEFAULT_PROTECTION_RULES,
                                 config.onlyVault).recommendations )
    => \A k \in 1..Len(PlanRecs) :
           ( /\ PlanRecs[k].action = "JUNK"
             /\ PlanRecs[k].item.itemInstanceId = output.result.instanceId )
           => output.result.safeToDismantle

\* The item checked is JUNK in the plan of this inventory and backup, carries
\* the junk tag, and is reported safe.
C28_Witness ==
    /\ output.op = "destiny_check_build_safety"
    /\ ~output.isError
    /\ HasPlan
    /\ protectionRules = DEFAULT_PROTECTION_RULES
    /\ loaded(backup)
    /\ PlanRecs = generatePlan(inventory, backup, DEFAULT_PROTECTION_RULES,
                               config.onlyVault).recommendations
    /\ \E k \in 1..Len(PlanRecs) :
           /\ PlanRecs[k].action = "JUNK"
           /\ PlanRecs[k].item.itemInstanceId = output.result.instanceId
    /\ output.result.dimTag = Some("junk")
    /\ output.result.safeToDismantle

\* The positions in the plan of the JUNK recommendations of vault items.
VaultJunk ==
    {k \in 1..Len(PlanRecs) :
        PlanRecs[k].action = "JUNK" /\ PlanRecs[k].item.location = Vault}

\* C29: one call of destiny_move_junk_to_character issues at most maxItems
\* transfer requests (10 when maxItems is not given, none when it is
\* negative), each for another item
\* that is JUNK in the plan and in the vault in the plan's snapshot, in the
\* order of the plan; it reports moved + failed = the number of requests,
\* whatever transfers fail, and leaves the plan and the inventory as they
\* were.
C29_MoveJunkBounded ==
    [][(output'.op = "destiny_move_junk_to_character" /\ ~output'.isError) =>
           /\ Len(requests') <= (IF output'.result.maxItems = None THEN 10
                                 ELSE Max(Get(output'.result.maxItems), 0))
           /\ \E pos \in [1..Len(requests') -> VaultJunk] :
                  /\ \A k \in 1..Len(requests') :
                         /\ requests'[k].itemInstanceId
                                = PlanRecs[pos[k]].item.itemInstanceId
                         /\ requests'[k].itemHash = PlanRecs[pos[k]].item.itemHash
                  /\ \A j, k \in 1..Len(requests') : j < k => pos[j] < pos[k]
           /\ output'.result.report.moved + output'.result.report.failed
                  = Len(requests')
           /\ currentPlan' = currentPlan
           /\ inventory' = inventory]_vars

(***************************************************************************)
(* The copies of a weapon in the plan                                      *)
(***************************************************************************)
\* The positions in the plan of the weapons with one definition.
WeaponRecsOf(hash) ==
    {k \in 1..Len(PlanRecs) :
        PlanRecs[k].item.itemType = "weapon" /\ PlanRecs[k].item.itemHash = hash}

C30_InputsUntouched ==
    [][(currentPlan' # currentPlan \/ duplicateGroups' # duplicateGroups) =>
           /\ inventory' = inventory
           /\ backup' = backup
           /\ protectionRules' = protectionRules
           /\ options' = options]_vars

\* A plan and the groups were made of a list that is not in the order of
\* the ranking of its copies nor in the order of the plan.
C30_Witness ==
    /\ HasPlan
    /\ HasGroups
    /\ Len(Groups) > 0
    /\ Len(inventory) = Len(PlanRecs)
    /\ StableSort(inventory, "weapon") # inventory
    /\ inventory # [k \in 1..Len(PlanRecs) |-> PlanRecs[k].item]
    /\ inventory # Groups[1].recommendation.keep \o Groups[1].recommendation.discard


====
